---- MODULE Spec2Model ----
(***************************************************************************)
(* photo_app: the camera session worker (core/gphoto_interface.py,         *)
(* GPhotoInterface) and the connection controller that starts and stops   *)
(* it (ui/views/camera_view.py, CameraView; ui/main_window.py,            *)
(* MainWindow).                                                           *)
(*                                                                         *)
(* Spec     one worker thread driven through its command API by a caller  *)
(*          thread, against a device whose every call may fail.           *)
(* SpecCtl  the controller's handlers, the Qt event queue between the     *)
(*          worker threads and the UI thread, and the workers it creates. *)
(***************************************************************************)
EXTENDS Integers, Sequences, FiniteSets, TLC

\* ---------------------------------------------------------------- bounds
\* Worker objects the controller may create (SpecCtl).
MaxWorkers == 2
\* Commands pending in a command queue at once.
MaxQueue == 2
\* Device faults injected in SpecCtl (Spec injects without limit).
MaxFaults == 1
\* Queued signal deliveries waiting in the UI thread's event queue.
MaxEvents == 1
\* Commands (captures, parameter changes) the user issues in SpecCtl.
MaxCommands == 1
\* Parameter changes the user issues in SpecQueue: two past the queue's size.
MaxIssued == 34

\* ------------------------------------------------------ program constants
ERR_USB == -52
ERR_TIMEOUT == -110
ERR_NO_SPACE == -53
ERR_IO == -7
ERR_BUSY == -110
ERR_GENERIC == -1
MAX_CONSECUTIVE_ERRORS == 20
QUEUE_MAXLEN == 32
INIT_ATTEMPTS == 3
CONFIG_ATTEMPTS == 5
FPS_IDLE == 50
FPS_AFTER_CAPTURE == 500
FPS_AFTER_UPDATE == 150
FPS_HEAVY == 1500
FPS_LIGHT == 500

HEAVY_ERRORS == {ERR_USB, ERR_NO_SPACE}
LIGHT_ERRORS == {ERR_TIMEOUT, ERR_BUSY, ERR_GENERIC, ERR_IO}

\* Thresholds the specification names; the worker has no code for them.
HeavyLimit == 3

\* Codes a libgphoto2 call may raise: the classified ones and one the tables
\* do not list (-2, bad parameters).
ErrorCodes == HEAVY_ERRORS \cup LIGHT_ERRORS \cup {-2}

Workers == 1..MaxWorkers
NoWorker == 0

CAPTURE == "__CAPTURE__"
CaptureCmd == <<CAPTURE, "/tmp/out">>
ParamCmds == {<<"iso", "400">>}
Commands == ParamCmds \cup {CaptureCmd}

Signals == {"frame_received", "settings_loaded", "error_occurred",
            "image_captured", "capture_failed"}

VARIABLES
    \* --- GPhotoInterface, one per worker object
    wpc,                 \* position of run()
    keep_running,
    capturing,           \* _capturing
    camera,              \* self.camera: "none", "new" (no session), "open"
    attempt,             \* run()'s loop variable of both startup loops
    initial_config,      \* run()'s local: "empty", "partial" (expected
                         \* parameters missing) or "complete"
    command_queue,
    consecutive_errors,
    fps_sleep,           \* milliseconds
    original_target,     \* _execute_capture's local; "none" is None
    mutex,               \* TRUE while the worker thread holds self.mutex
    \* --- the device
    capturetarget,       \* the camera's capture-destination setting
    faultsLeft,          \* device faults still to inject; negative: no limit
    \* --- observation of the worker
    nErr,                \* error_occurred emissions
    nSettings,           \* settings_loaded emissions
    opens,               \* sessions opened (camera.init succeeded)
    exitCalls,           \* camera.exit calls made on an opened session
    execLog,             \* commands executed in the current drain pass
    drainSnap,           \* the queue as the current drain pass found it
    executing,           \* commands whose execution has begun and not ended
    heavyRun,            \* trailing consecutive Heavy frame errors (to HeavyLimit)
    stallMark,           \* <<exitCalls, opens>> at a slow Generic frame error
    updateRec,           \* the parameter write that has just returned:
                         \* "none", "ok", "gperr" or "exc"
    capRec,              \* the capture that has just returned: the target
                         \* before, step 1, the shot, the restore, the target after
    dropped,             \* run()'s local: the commands the last clear removed
    frameResult,         \* this iteration's frame attempt: "fail" is a
                         \* GPhoto2Error, "fail_exc" another exception
    previewRec,          \* the capture_preview call of the worker's last step
    \* --- caller / UI thread
    ui_pc,               \* where the UI thread waits: "idle" is the event loop
    ui_w, ui_cmd, ui_next,  \* the waiting handler's locals
    uiq,                 \* queued signal deliveries to the UI thread
    connected,           \* per worker: its signals with a slot connected
    finishedSlot,        \* per worker: the slot connected to finished
    killTimer,           \* per worker: a pending _force_terminate timer
    imgEmitted,          \* per worker: image_captured deliveries queued so far
    imgDelivered,        \* per worker: image_captured deliveries handled
    stoppedInCapture, askedSinceError,
    uiCommands,
    probeByRetry,        \* the running probe was started by _try_reconnect
    \* --- CameraView / MainWindow
    lv_thread, dead_thread, camera_ready, needs_reconnect, error_stopped,
    stopping, reconnecting, capture_blocked,
    btn_lv_enabled, btn_lv_text, btn_cap_enabled,
    view, probe_running, nextWorker

wvars == <<wpc, keep_running, capturing, camera, attempt, initial_config, command_queue,
           consecutive_errors, fps_sleep, original_target, mutex>>
dvars == <<capturetarget, faultsLeft>>
ovars == <<nErr, opens, exitCalls, nSettings, execLog, drainSnap, executing, heavyRun,
           stallMark, capRec, updateRec, frameResult, dropped, previewRec>>
uvars == <<ui_pc, ui_w, ui_cmd, ui_next>>
qvars == <<uiq, connected, finishedSlot, killTimer>>
gvars == <<imgEmitted, imgDelivered, stoppedInCapture, askedSinceError,
           uiCommands, probeByRetry>>
cvars == <<lv_thread, dead_thread, camera_ready, needs_reconnect,
           error_stopped, stopping, reconnecting, capture_blocked,
           btn_lv_enabled, btn_lv_text, btn_cap_enabled, view, probe_running,
           nextWorker>>
vars == <<wvars, dvars, ovars, uvars, qvars, gvars, cvars>>

\* ---------------------------------------------------------------- helpers
Min(a, b) == IF a < b THEN a ELSE b

\* QThread.isRunning(): started, run() not yet returned, not terminated.
IsRunning(w) == w # NoWorker /\ wpc[w] \notin {"unborn", "done", "killed"}

\* A device call's outcomes: only "ok" once the fault budget is spent.
Outcomes(all) == IF faultsLeft # 0 THEN all ELSE {"ok"}
Spend(r) == faultsLeft' = IF r # "ok" /\ faultsLeft > 0
                          THEN faultsLeft - 1 ELSE faultsLeft

\* pyqtSignal.emit across threads: one queued delivery per connected slot.
Posted(q, w, sig) == IF sig \in connected[w]
                     THEN Append(q, <<w, sig, TRUE>>) ELSE q
Room == Len(uiq) < MaxEvents
\* Room for what worker w may emit in a step: needed only for a signal that
\* has a slot connected.
RoomFor(w, sigs) == Room \/ sigs \cap connected[w] = {}

\* deque(maxlen=32).append: a full deque discards its oldest entry.
DequeAppendDropsNewest(q, c) == IF Len(q) >= QUEUE_MAXLEN
                                THEN q ELSE Append(q, c)
DequeAppend(q, c) == IF Len(q) >= QUEUE_MAXLEN
                     THEN Append(Tail(q), c) ELSE Append(q, c)

\* deque.popleft: the entry the drain takes next.
PopIndexRight(q) == Len(q)
PopIndex(q) == 1
Popped(q) == q[PopIndex(q)]
AfterPeek(q) == q
AfterPop(q) == [i \in 1..(Len(q) - 1) |->
                    IF i < PopIndex(q) THEN q[i] ELSE q[i + 1]]

\* No capture has just returned.
CapRecNone == [before |-> "none", step1 |-> "none", shot |-> "none",
               deleted |-> "none", signal |-> "none", path |-> <<>>,
               restore |-> "none", after |-> "none"]

\* No capture_preview call was made in the worker's last step.
PreviewRecNone == [kind |-> "none", taken |-> FALSE, polled |-> FALSE,
                   shown |-> FALSE]
\* A recovery preview (_execute_capture 443-450, _execute_update 510-517):
\* its frame is dropped.
PreviewRecRecoveryShown(ok) == [kind |-> "recovery", taken |-> ok,
                                polled |-> FALSE, shown |-> ok]
PreviewRecRecovery(ok) == [kind |-> "recovery", taken |-> ok,
                           polled |-> FALSE, shown |-> FALSE]
\* Whether the recovery preview succeeds, where one is made.
RecoveryOutcomes(made) == IF made /\ faultsLeft # 0 THEN BOOLEAN ELSE {TRUE}

\* ------------------------------------------------------------ the worker
\* run() lines 100-102: _autodetect_camera raises when no camera is listed;
\* the outer except (234-236) emits error_occurred and the finally follows.
W_Detect(w) ==
    /\ wpc[w] = "detect"
    /\ RoomFor(w, {"error_occurred"})
    /\ \E r \in Outcomes({"ok", "nocam"}) :
        /\ Spend(r)
        /\ IF r = "ok"
           THEN /\ camera' = [camera EXCEPT ![w] = "new"]
                /\ wpc' = [wpc EXCEPT ![w] = "init"]
                /\ UNCHANGED <<nErr, uiq>>
           ELSE /\ wpc' = [wpc EXCEPT ![w] = "finally"]
                /\ nErr' = [nErr EXCEPT ![w] = @ + 1]
                /\ uiq' = Posted(uiq, w, "error_occurred")
                /\ UNCHANGED camera
    /\ UNCHANGED <<keep_running, capturing, attempt, initial_config, command_queue,
                   consecutive_errors, fps_sleep, original_target, mutex,
                   capturetarget, opens, exitCalls, nSettings, execLog, drainSnap,
                   executing, heavyRun, stallMark, capRec, updateRec, frameResult, dropped,
                   previewRec,
                   uvars, connected, finishedSlot, killTimer, gvars, cvars>>

\* run() lines 106 and 121-130: a GPhoto2Error of camera.init is retried
\* until range(3) is used up; att counts from 0.
InitRetriedOnceMore(r, att) == r = "gperr" /\ att < INIT_ATTEMPTS
InitRetried(r, att) == r = "gperr" /\ att + 1 < INIT_ATTEMPTS

\* run() lines 104-130: up to three camera.init attempts; an attempt after the
\* first drops the damaged Camera object and detects again.
W_Init(w) ==
    /\ wpc[w] = "init"
    /\ RoomFor(w, {"error_occurred"})
    /\ \E r \in Outcomes(IF attempt[w] > 0 THEN {"ok", "gperr", "nocam"}
                                           ELSE {"ok", "gperr"}) :
        /\ Spend(r)
        /\ IF r = "ok"
           THEN /\ camera' = [camera EXCEPT ![w] = "open"]
                /\ opens' = [opens EXCEPT ![w] = @ + 1]
                /\ wpc' = [wpc EXCEPT ![w] = "config"]
                /\ attempt' = [attempt EXCEPT ![w] = 0]
                /\ UNCHANGED <<nErr, uiq>>
           ELSE IF InitRetried(r, attempt[w])
           THEN /\ camera' = [camera EXCEPT ![w] = "new"]
                /\ attempt' = [attempt EXCEPT ![w] = @ + 1]
                /\ UNCHANGED <<wpc, opens, nErr, uiq>>
           ELSE \* the third failure, or no camera at the new detection
                /\ camera' = [camera EXCEPT ![w] =
                                 IF r = "nocam" THEN "none" ELSE "new"]
                /\ wpc' = [wpc EXCEPT ![w] = "finally"]
                /\ nErr' = [nErr EXCEPT ![w] = @ + 1]
                /\ uiq' = Posted(uiq, w, "error_occurred")
                /\ UNCHANGED <<attempt, opens>>
    /\ UNCHANGED <<keep_running, capturing, initial_config, command_queue,
                   consecutive_errors, fps_sleep, original_target, mutex,
                   capturetarget, exitCalls, nSettings, execLog, drainSnap,
                   executing, heavyRun, stallMark, capRec, updateRec, frameResult, dropped,
                   previewRec,
                   uvars, connected, finishedSlot, killTimer, gvars, cvars>>

\* initial_config.update(config) (138): what run() holds after one more read.
\* A read returns all the expected parameters it could fetch: "complete",
\* "partial" or "empty"; the contents only grow.
Updated(cfg, read) ==
    IF "complete" \in {cfg, read} THEN "complete"
    ELSE IF "partial" \in {cfg, read} THEN "partial" ELSE "empty"

\* run() lines 136-145: one pass of the configuration loop. The read never
\* raises (_get_filtered_config catches and returns what it has); the loop
\* ends when no expected parameter is missing or with the fifth pass.
W_Config(w) ==
    /\ wpc[w] = "config"
    /\ \E r \in Outcomes({"ok", "partial", "empty"}) :
        LET read == IF r = "ok" THEN "complete" ELSE r
            cfg == Updated(initial_config[w], read)
        IN /\ Spend(r)
           /\ initial_config' = [initial_config EXCEPT ![w] = cfg]
           /\ IF cfg = "complete" \/ attempt[w] + 1 >= CONFIG_ATTEMPTS
              THEN /\ wpc' = [wpc EXCEPT ![w] = "config_done"]
                   /\ UNCHANGED attempt
              ELSE /\ attempt' = [attempt EXCEPT ![w] = @ + 1]
                   /\ UNCHANGED wpc
    /\ UNCHANGED <<keep_running, capturing, camera, command_queue,
                   consecutive_errors, fps_sleep, original_target, mutex,
                   capturetarget, ovars,
                   uvars, qvars, gvars, cvars>>

\* run() line 147: settings_loaded is emitted when anything was read.
SettingsEmittedIfMissing(cfg) == cfg = "partial"
SettingsEmitted(cfg) == cfg # "empty"

\* run() line 155: keep_running = True, whatever the flag held.
RunFlagKept(kr) == kr
RunFlagAtLoopEntry(kr) == TRUE

\* run() lines 147-156: settings_loaded, then keep_running = True and
\* consecutive_errors = 0. Neither loop variable nor initial_config is read
\* again.
W_ConfigDone(w) ==
    /\ wpc[w] = "config_done"
    /\ RoomFor(w, {"settings_loaded"})
    /\ IF SettingsEmitted(initial_config[w])
       THEN /\ uiq' = Posted(uiq, w, "settings_loaded")
            /\ nSettings' = [nSettings EXCEPT ![w] = @ + 1]
       ELSE UNCHANGED <<uiq, nSettings>>
    /\ keep_running' = [keep_running EXCEPT ![w] = RunFlagAtLoopEntry(@)]
    /\ consecutive_errors' = [consecutive_errors EXCEPT ![w] = 0]
    /\ attempt' = [attempt EXCEPT ![w] = 0]
    /\ initial_config' = [initial_config EXCEPT ![w] = "empty"]
    /\ wpc' = [wpc EXCEPT ![w] = "loop"]
    /\ UNCHANGED <<capturing, camera, command_queue, fps_sleep,
                   original_target, mutex, dvars,
                   nErr, opens, exitCalls, execLog, drainSnap, executing,
                   heavyRun, stallMark, capRec, updateRec, frameResult, dropped, previewRec,
                   uvars, connected, finishedSlot, killTimer, gvars, cvars>>

\* run() lines 158-164 and 172-173: the while test, fps_sleep = 0.05,
\* mutex.lock(); an empty queue is left at once (mutex.unlock()).
W_Loop(w) ==
    /\ wpc[w] = "loop"
    /\ IF ~keep_running[w]
       THEN /\ wpc' = [wpc EXCEPT ![w] = "finally"]
            /\ UNCHANGED <<fps_sleep, mutex, drainSnap>>
       ELSE IF command_queue[w] = <<>>
       THEN /\ wpc' = [wpc EXCEPT ![w] = "preview"]
            /\ fps_sleep' = [fps_sleep EXCEPT ![w] = FPS_IDLE]
            /\ UNCHANGED <<mutex, drainSnap>>
       ELSE /\ wpc' = [wpc EXCEPT ![w] = "drain"]
            /\ fps_sleep' = [fps_sleep EXCEPT ![w] = FPS_IDLE]
            /\ mutex' = [mutex EXCEPT ![w] = TRUE]
            /\ drainSnap' = [drainSnap EXCEPT ![w] = command_queue[w]]
    /\ frameResult' = [frameResult EXCEPT ![w] = "none"]
    /\ dropped' = [dropped EXCEPT ![w] = 0]
    /\ previewRec' = [previewRec EXCEPT ![w] = PreviewRecNone]
    /\ UNCHANGED <<keep_running, capturing, camera, attempt, initial_config, command_queue,
                   consecutive_errors, original_target, dvars,
                   nErr, opens, exitCalls, nSettings, execLog, executing, heavyRun,
                   stallMark, capRec, updateRec, uvars, qvars, gvars, cvars>>

\* run() lines 164 and 172-173: the queue has been drained, mutex.unlock().
W_DrainEnd(w) ==
    /\ wpc[w] = "drain"
    /\ command_queue[w] = <<>>
    /\ mutex' = [mutex EXCEPT ![w] = FALSE]
    /\ wpc' = [wpc EXCEPT ![w] = "preview"]
    /\ execLog' = [execLog EXCEPT ![w] = <<>>]
    /\ drainSnap' = [drainSnap EXCEPT ![w] = <<>>]
    /\ capRec' = [capRec EXCEPT ![w] = CapRecNone]
    /\ updateRec' = [updateRec EXCEPT ![w] = "none"]
    /\ previewRec' = [previewRec EXCEPT ![w] = PreviewRecNone]
    /\ UNCHANGED <<keep_running, capturing, camera, attempt, initial_config, command_queue,
                   consecutive_errors, fps_sleep, original_target, dvars,
                   nErr, opens, exitCalls, nSettings, executing, heavyRun, stallMark,
                   frameResult, dropped, uvars, qvars, gvars, cvars>>

\* run() line 170: _execute_update's result is dropped; a failed write does
\* not count as an error of the loop.
CountAfterUpdateFailure(ce, r) == IF r = "ok" THEN ce ELSE ce + 1
CountAfterUpdate(ce, r) == ce

\* run() lines 165, 169-171 and _execute_update (480-522): one configuration
\* write; a failure is logged and, for a GPhoto2Error, followed by a recovery
\* preview whose frame is dropped.
W_ExecUpdate(w) ==
    /\ wpc[w] = "drain"
    /\ command_queue[w] # <<>>
    /\ Popped(command_queue[w])[1] # CAPTURE
    /\ \E r \in Outcomes({"ok", "gperr", "exc"}) :
      \E rec \in RecoveryOutcomes(r = "gperr") :
        /\ Spend(r)
        /\ previewRec' = [previewRec EXCEPT ![w] =
              IF r = "gperr" THEN PreviewRecRecovery(rec) ELSE PreviewRecNone]
        /\ updateRec' = [updateRec EXCEPT ![w] = r]
        /\ consecutive_errors' = [consecutive_errors EXCEPT ![w] =
                                     CountAfterUpdate(@, r)]
    /\ command_queue' = [command_queue EXCEPT ![w] = AfterPop(@)]
    /\ execLog' = [execLog EXCEPT ![w] = Append(@, Popped(command_queue[w]))]
    /\ fps_sleep' = [fps_sleep EXCEPT ![w] = FPS_AFTER_UPDATE]
    /\ capRec' = [capRec EXCEPT ![w] = CapRecNone]
    /\ UNCHANGED <<wpc, keep_running, capturing, camera, attempt, initial_config,
                   original_target, mutex, capturetarget,
                   nErr, opens, exitCalls, nSettings, drainSnap, executing, heavyRun,
                   stallMark, frameResult, dropped, uvars, qvars, gvars, cvars>>

\* _execute_capture step 1 (lines 381-405): what the step leaves in
\* original_target and on the device, by the device's answer r.
\*   "ok"        the widget is read; written when a card option exists and
\*               differs from the current value
\*   "nocard"    no choice names a card
\*   "readfail"  get_config / get_child_by_name raises
\*   "latefail"  get_choices / set_value / set_config raises, after
\*               original_target was read
Step1Switches(cur, r) == r = "ok" /\ cur # "card"
Step1Remembers(cur, r) == IF r = "latefail" THEN TRUE
                          ELSE Step1Switches(cur, r)
Step1Kind(cur, r) ==
    IF Step1Switches(cur, r) THEN "switched"
    ELSE IF r = "latefail" THEN "latefailed"
    ELSE IF r = "readfail" THEN "readfailed"
    ELSE "nochange"

\* run() lines 165-167 and _execute_capture lines 376-405.
W_CaptureBegin(w) ==
    /\ wpc[w] = "drain"
    /\ command_queue[w] # <<>>
    /\ Popped(command_queue[w])[1] = CAPTURE
    /\ \E r \in Outcomes({"ok", "nocard", "readfail", "latefail"}) :
        /\ Spend(r)
        /\ capturetarget' = IF Step1Switches(capturetarget, r)
                            THEN "card" ELSE capturetarget
        /\ original_target' = [original_target EXCEPT ![w] =
              IF Step1Remembers(capturetarget, r) THEN capturetarget
              ELSE "none"]
        /\ capRec' = [capRec EXCEPT ![w] =
              [before |-> capturetarget, step1 |-> Step1Kind(capturetarget, r),
               shot |-> "pending", deleted |-> "none", signal |-> "none",
               path |-> <<>>, restore |-> "none", after |-> "pending"]]
    /\ command_queue' = [command_queue EXCEPT ![w] = AfterPop(@)]
    /\ execLog' = [execLog EXCEPT ![w] = Append(@, Popped(command_queue[w]))]
    /\ executing' = [executing EXCEPT ![w] = @ \cup {Popped(command_queue[w])}]
    /\ capturing' = [capturing EXCEPT ![w] = TRUE]
    /\ wpc' = [wpc EXCEPT ![w] = "capture"]
    /\ updateRec' = [updateRec EXCEPT ![w] = "none"]
    /\ previewRec' = [previewRec EXCEPT ![w] = PreviewRecNone]
    /\ UNCHANGED <<keep_running, camera, attempt, initial_config, consecutive_errors,
                   fps_sleep, mutex, nErr, opens, exitCalls, nSettings, drainSnap,
                   heavyRun, stallMark, frameResult, dropped, uvars, qvars, gvars,
                   cvars>>

\* What _execute_capture emits (441, 458, 463) by the answer of steps 2-4:
\*   "ok"       the picture was taken, fetched and saved
\*   "timeout"  camera.capture raised GPhoto2Error with ERR_TIMEOUT
\*   "gperr"    another GPhoto2Error of capture or file_get
\*   "exc"      another exception (makedirs, save)
\* del is the answer of camera.file_delete (433-439), whose raise is caught
\* and logged: "ok", "failed", or "none" when the delete was not reached.
CaptureSignalFatal(r, del) == IF r = "ok" THEN "image_captured"
                              ELSE "error_occurred"
CaptureSignalSilent(r, del) == IF r = "ok" THEN "image_captured" ELSE "none"
CaptureSignalDeleteStrict(r, del) ==
    IF r = "ok" /\ del = "ok" THEN "image_captured" ELSE "capture_failed"
CaptureSignal(r, del) ==
    IF r = "ok" THEN "image_captured" ELSE "capture_failed"
DeleteOutcomes(reached) == IF ~reached THEN {"none"}
                           ELSE IF faultsLeft # 0 THEN {"ok", "failed"}
                           ELSE {"ok"}

\* Lines 421-427: the file is saved as save_dir/captures/<timestamp>_<name>.
\* A path is the sequence of its components.
TIMESTAMP == "20260101_120000"
DEVICE_FILE == "IMG_0001.CR3"
StampedName(ts, name) == <<ts, "_", name>>
LocalPath(save_dir, ts, name) ==
    <<save_dir, "captures", StampedName(ts, name)>>
\* The value passed to _execute_capture: the command the drain took last.
SaveDir(w) == execLog[w][Len(execLog[w])][2]
ShotKind(r) == IF r = "ok" THEN "ok"
               ELSE IF r = "timeout" THEN "timeout" ELSE "failed"

\* _execute_capture lines 443-452: the one recovery preview after the emit;
\* its failure is printed and the capture returns True all the same.
CountAfterRecoveryFailure(ce, ok) == IF ok THEN ce ELSE ce + 1
CountAfterRecovery(ce, ok) == ce

\* _execute_capture lines 407-464: trigger, download, save, delete,
\* image_captured, the recovery preview; any raise before the emit becomes
\* capture_failed.
W_CaptureShoot(w) ==
    /\ wpc[w] = "capture"
    /\ RoomFor(w, {"image_captured", "capture_failed"})
    /\ \E r \in Outcomes({"ok", "timeout", "gperr", "exc"}) :
      \E rec \in RecoveryOutcomes(r = "ok") :
      \E del \in DeleteOutcomes(r = "ok") :
        /\ Spend(IF del = "failed" THEN "delete" ELSE r)
        /\ previewRec' = [previewRec EXCEPT ![w] =
              IF r = "ok" THEN PreviewRecRecovery(rec) ELSE PreviewRecNone]
        /\ uiq' = Posted(uiq, w, CaptureSignal(r, del))
        /\ imgEmitted' = [imgEmitted EXCEPT ![w] =
              IF CaptureSignal(r, del) = "image_captured"
                 /\ "image_captured" \in connected[w]
              THEN @ + 1 ELSE @]
        /\ consecutive_errors' = [consecutive_errors EXCEPT ![w] =
                                     CountAfterRecovery(@, rec)]
        /\ capRec' = [capRec EXCEPT
              ![w].shot = ShotKind(r),
              ![w].deleted = del,
              ![w].signal = CaptureSignal(r, del),
              ![w].path = IF CaptureSignal(r, del) = "image_captured"
                          THEN LocalPath(SaveDir(w), TIMESTAMP, DEVICE_FILE)
                          ELSE <<>>]
    /\ wpc' = [wpc EXCEPT ![w] = "cap_finally"]
    /\ UNCHANGED updateRec
    /\ UNCHANGED <<keep_running, capturing, camera, attempt, initial_config, command_queue,
                   fps_sleep, original_target, mutex,
                   capturetarget, nErr, opens, exitCalls, nSettings, execLog, drainSnap,
                   executing, heavyRun, stallMark, frameResult, dropped,
                   uvars, connected, finishedSlot,
                   killTimer, imgDelivered, stoppedInCapture, askedSinceError, probeByRetry,
                   uiCommands, cvars>>

\* _execute_capture's finally (466-478): the restoring write is made when
\* original_target is set, and may itself fail.
RestoreIssued(orig) == orig # "none"
TargetAfterRestoreLost(cur, orig, r) == cur
TargetAfterRestore(cur, orig, r) ==
    IF RestoreIssued(orig) /\ r = "ok" THEN orig ELSE cur

\* _execute_capture lines 466-478 and run() line 168.
W_CaptureFinally(w) ==
    /\ wpc[w] = "cap_finally"
    /\ \E r \in Outcomes(IF RestoreIssued(original_target[w])
                         THEN {"ok", "fail"} ELSE {"ok"}) :
        /\ Spend(r)
        /\ capturetarget' =
              TargetAfterRestore(capturetarget, original_target[w], r)
        /\ capRec' = [capRec EXCEPT ![w] =
              [@ EXCEPT !.restore =
                            IF ~RestoreIssued(original_target[w]) THEN "none"
                            ELSE IF r = "ok" THEN "ok" ELSE "failed",
                        !.after = capturetarget']]
    /\ capturing' = [capturing EXCEPT ![w] = FALSE]
    /\ executing' = [executing EXCEPT ![w] = {}]
    /\ fps_sleep' = [fps_sleep EXCEPT ![w] = FPS_AFTER_CAPTURE]
    /\ wpc' = [wpc EXCEPT ![w] = "drain"]
    /\ UNCHANGED updateRec
    /\ previewRec' = [previewRec EXCEPT ![w] = PreviewRecNone]
    /\ UNCHANGED <<keep_running, camera, attempt, initial_config, command_queue,
                   consecutive_errors, original_target, mutex,
                   nErr, opens, exitCalls, nSettings, execLog, drainSnap, heavyRun,
                   stallMark, frameResult, dropped, uvars, qvars, gvars, cvars>>

\* The error policy of run()'s handlers (lines 189, 192, 208-215, 224-230).
CountAfterFrameKept(ce) == ce
CountAfterFrame(ce) == 0
CountAfterFailure(ce) == ce + 1
FatalVerdictLate(ce) == ce > MAX_CONSECUTIVE_ERRORS
FatalVerdict(ce) == ce >= MAX_CONSECUTIVE_ERRORS
SleepAfterErrorFlat(code) == FPS_LIGHT
SleepAfterError(code) == IF code \in HEAVY_ERRORS THEN FPS_HEAVY
                         ELSE IF code \in LIGHT_ERRORS THEN FPS_LIGHT
                         ELSE FPS_LIGHT
\* Lines 198-206: the GPhoto2Error handler clears the queue; the handler of
\* other exceptions (223-230) leaves it.
QueueAfterFrameErrorKept(q, k) == q
QueueAfterFrameError(q, k) == IF k = "gperr" THEN <<>> ELSE q
\* Lines 220-221 and 228-229: keep_running = False; break.
PcAfterFatalLoops == "loop"
PcAfterFatal == "finally"

\* What capture_preview / wait_for_event may answer: a frame, a GPhoto2Error
\* with its code (slow: the call took over 2000 ms), or another exception.
PreviewAnswers ==
    IF faultsLeft = 0 THEN {[k |-> "ok", code |-> 0, slow |-> FALSE]}
    ELSE {[k |-> "ok", code |-> 0, slow |-> FALSE],
          [k |-> "exc", code |-> 0, slow |-> FALSE]}
         \cup [k : {"gperr"}, code : ErrorCodes, slow : BOOLEAN]

\* The call of the frame section (177-183) a failure comes from:
\* capture_preview, or get_data_and_size / wait_for_event after a preview
\* that was taken.
FailurePoints(k) == IF k = "ok" THEN {"none"} ELSE {"preview", "poll"}

\* Line 188: frame_received is emitted when the preview was taken and the
\* event poll after it returned.
FrameShownUnpolled(taken, polled) == taken
FrameShown(taken, polled) == taken /\ polled
PostedFrame(q, w, taken, polled) ==
    IF FrameShown(taken, polled) THEN Posted(q, w, "frame_received") ELSE q
PreviewRecFrame(taken, polled) ==
    [kind |-> "frame", taken |-> taken, polled |-> polled,
     shown |-> FrameShown(taken, polled)]

\* run() lines 175-232: one preview frame and the event poll; the frame is
\* emitted and the counter reset, or the failure is counted, the queue
\* cleared and the verdict taken; then time.sleep(fps_sleep) and back to the
\* while test.  slow: the failing call took over 2000 ms.
W_Preview(w) ==
    /\ wpc[w] = "preview"
    /\ RoomFor(w, {"frame_received", "error_occurred"})
    /\ \E r \in PreviewAnswers :
      \E at \in FailurePoints(r.k) :
        /\ Spend(r.k)
        /\ previewRec' = [previewRec EXCEPT ![w] =
              PreviewRecFrame(r.k = "ok" \/ at = "poll", r.k = "ok")]
        /\ IF r.k = "ok"
           THEN /\ uiq' = PostedFrame(uiq, w, TRUE, TRUE)
                /\ consecutive_errors' = [consecutive_errors EXCEPT ![w] =
                                             CountAfterFrame(@)]
                /\ frameResult' = [frameResult EXCEPT ![w] =
                      IF consecutive_errors[w] > 0 THEN "ok_after_errors"
                      ELSE "ok"]
                /\ UNCHANGED dropped
                /\ wpc' = [wpc EXCEPT ![w] = "loop"]
                /\ heavyRun' = [heavyRun EXCEPT ![w] = 0]
                /\ stallMark' = [stallMark EXCEPT ![w] = <<>>]
                /\ UNCHANGED <<command_queue, fps_sleep, keep_running, nErr>>
           ELSE /\ consecutive_errors' = [consecutive_errors EXCEPT ![w] =
                                             CountAfterFailure(@)]
                /\ frameResult' = [frameResult EXCEPT ![w] =
                      IF r.k = "gperr" THEN "fail" ELSE "fail_exc"]
                /\ command_queue' = [command_queue EXCEPT ![w] =
                                        QueueAfterFrameError(@, r.k)]
                /\ dropped' = [dropped EXCEPT ![w] =
                      IF r.k = "gperr" THEN Len(command_queue[w]) ELSE @]
                /\ heavyRun' = [heavyRun EXCEPT ![w] =
                      IF r.k = "gperr" /\ r.code \in HEAVY_ERRORS
                      THEN Min(@ + 1, HeavyLimit) ELSE 0]
                /\ stallMark' = [stallMark EXCEPT ![w] =
                      IF r.k = "gperr" /\ r.code = ERR_GENERIC /\ r.slow
                      THEN <<exitCalls[w], opens[w]>> ELSE <<>>]
                /\ IF FatalVerdict(consecutive_errors'[w])
                   THEN /\ nErr' = [nErr EXCEPT ![w] = @ + 1]
                        /\ uiq' = Posted(PostedFrame(uiq, w, at = "poll",
                                                     FALSE),
                                         w, "error_occurred")
                        /\ keep_running' = [keep_running EXCEPT ![w] = FALSE]
                        /\ wpc' = [wpc EXCEPT ![w] = PcAfterFatal]
                        /\ fps_sleep' = [fps_sleep EXCEPT ![w] =
                              IF r.k = "gperr" THEN SleepAfterError(r.code)
                              ELSE @]
                   ELSE /\ wpc' = [wpc EXCEPT ![w] = "loop"]
                        /\ fps_sleep' = [fps_sleep EXCEPT ![w] =
                              IF r.k = "gperr" THEN SleepAfterError(r.code)
                              ELSE FPS_LIGHT]
                        /\ uiq' = PostedFrame(uiq, w, at = "poll", FALSE)
                        /\ UNCHANGED <<nErr, keep_running>>
    /\ UNCHANGED <<capturing, camera, attempt, initial_config, original_target, mutex,
                   capturetarget, opens, exitCalls, nSettings, execLog, drainSnap,
                   executing, capRec, updateRec, uvars, connected, finishedSlot,
                   killTimer, gvars, cvars>>

\* _safe_camera_exit (242-251): camera.exit is called when self.camera is set.
ClosesOnCleanPathOnly(cam, errored) == cam # "none" /\ ~errored
ClosesOnExit(cam, errored) == cam # "none"

\* QThread: finished is delivered to the slot connected to it, if any.
PostedFinished(q, w) == IF finishedSlot[w] # "none"
                        THEN Append(q, <<w, "finished", TRUE>>) ELSE q

\* run() has returned or the thread was terminated: run()'s locals are gone,
\* and so is what was observed of its current iteration.
Forgotten(f, w, v) == [f EXCEPT ![w] = v]
LocalsGone(w) ==
    /\ attempt' = Forgotten(attempt, w, 0)
    /\ initial_config' = Forgotten(initial_config, w, "empty")
    /\ consecutive_errors' = Forgotten(consecutive_errors, w, 0)
    /\ fps_sleep' = Forgotten(fps_sleep, w, FPS_IDLE)
    /\ original_target' = Forgotten(original_target, w, "none")
    /\ execLog' = Forgotten(execLog, w, <<>>)
    /\ drainSnap' = Forgotten(drainSnap, w, <<>>)
    /\ executing' = Forgotten(executing, w, {})
    /\ heavyRun' = Forgotten(heavyRun, w, 0)
    /\ stallMark' = Forgotten(stallMark, w, <<>>)
    /\ capRec' = Forgotten(capRec, w, CapRecNone)
    /\ updateRec' = Forgotten(updateRec, w, "none")
    /\ frameResult' = Forgotten(frameResult, w, "none")
    /\ dropped' = Forgotten(dropped, w, 0)
    /\ previewRec' = Forgotten(previewRec, w, PreviewRecNone)
LocalsKept ==
    UNCHANGED <<attempt, initial_config, consecutive_errors, fps_sleep, original_target,
                execLog, drainSnap, executing, heavyRun, stallMark, capRec, updateRec,
                frameResult, dropped, previewRec>>

\* run()'s finally (238-240) and _safe_camera_exit (242-251); run() returns.
W_Finally(w) ==
    /\ wpc[w] = "finally"
    /\ (Room \/ finishedSlot[w] = "none")
    /\ capturing' = [capturing EXCEPT ![w] = FALSE]
    /\ exitCalls' = [exitCalls EXCEPT ![w] =
          IF ClosesOnExit(camera[w], nErr[w] > 0) /\ camera[w] = "open"
          THEN @ + 1 ELSE @]
    /\ camera' = [camera EXCEPT ![w] =
          IF ClosesOnExit(camera[w], nErr[w] > 0) THEN "none" ELSE @]
    /\ wpc' = [wpc EXCEPT ![w] = "done"]
    /\ uiq' = PostedFinished(uiq, w)
    /\ LocalsGone(w)
    /\ UNCHANGED <<keep_running, command_queue, mutex, dvars, nErr, opens,
                   nSettings,
                   uvars, connected, finishedSlot, killTimer, gvars, cvars>>

WorkerStep(w) ==
    \/ W_Detect(w)
    \/ W_Init(w)
    \/ W_Config(w)
    \/ W_ConfigDone(w)
    \/ W_Loop(w)
    \/ W_DrainEnd(w)
    \/ W_ExecUpdate(w)
    \/ W_CaptureBegin(w)
    \/ W_CaptureShoot(w)
    \/ W_CaptureFinally(w)
    \/ W_Preview(w)
    \/ W_Finally(w)

\* ------------------------------------------------- the caller of the API
\* update_camera_param / capture_photo (340-362) up to mutex.lock().
API_Enqueue(w, c) ==
    /\ ui_pc = "idle"
    /\ IsRunning(w)
    /\ Len(command_queue[w]) < MaxQueue
    /\ ui_pc' = "enq"
    /\ ui_w' = w
    /\ ui_cmd' = c
    /\ UNCHANGED <<wvars, dvars, ovars, ui_next, qvars, gvars, cvars>>

\* update_camera_param / capture_photo: the append, once the mutex is free.
UI_EnqEnd ==
    /\ ui_pc = "enq"
    /\ ~mutex[ui_w]
    /\ command_queue' = [command_queue EXCEPT ![ui_w] = DequeAppend(@, ui_cmd)]
    /\ ui_pc' = "idle"
    /\ ui_w' = NoWorker
    /\ ui_cmd' = CaptureCmd
    /\ UNCHANGED <<wpc, keep_running, capturing, camera, attempt, initial_config,
                   consecutive_errors, fps_sleep, original_target, mutex,
                   dvars, ovars, ui_next, qvars, gvars, cvars>>

\* stop() lines 578-590: keep_running = False, then wait(STOP_TIMEOUT_MS).
API_Stop(w) ==
    /\ ui_pc = "idle"
    /\ IsRunning(w)
    /\ keep_running' = [keep_running EXCEPT ![w] = FALSE]
    /\ ui_pc' = "stop_wait"
    /\ ui_w' = w
    /\ UNCHANGED <<wpc, capturing, camera, attempt, initial_config, command_queue,
                   consecutive_errors, fps_sleep, original_target, mutex,
                   dvars, ovars, ui_cmd, ui_next, qvars, gvars, cvars>>

\* stop() lines 590-602: the wait returns; a thread still running is
\* terminated.
API_StopReturn ==
    /\ ui_pc = "stop_wait"
    /\ wpc' = IF IsRunning(ui_w) THEN [wpc EXCEPT ![ui_w] = "killed"] ELSE wpc
    /\ IF IsRunning(ui_w) THEN LocalsGone(ui_w) ELSE LocalsKept
    /\ ui_pc' = "idle"
    /\ ui_w' = NoWorker
    /\ UNCHANGED <<keep_running, capturing, camera, command_queue, mutex,
                   dvars, nErr, opens, exitCalls, nSettings, ui_cmd, ui_next,
                   qvars, gvars, cvars>>

\* ------------------------------------------------------------------ Spec
\* GPhotoInterface.__init__ (44-55) for every worker object, and
\* CameraView.__init__ (595-606).
InitObjects ==
    /\ keep_running = [w \in Workers |-> FALSE]
    /\ capturing = [w \in Workers |-> FALSE]
    /\ camera = [w \in Workers |-> "none"]
    /\ attempt = [w \in Workers |-> 0]
    /\ initial_config = [w \in Workers |-> "empty"]
    /\ command_queue = [w \in Workers |-> <<>>]
    /\ consecutive_errors = [w \in Workers |-> 0]
    /\ fps_sleep = [w \in Workers |-> FPS_IDLE]
    /\ original_target = [w \in Workers |-> "none"]
    /\ mutex = [w \in Workers |-> FALSE]
    /\ nErr = [w \in Workers |-> 0]
    /\ nSettings = [w \in Workers |-> 0]
    /\ opens = [w \in Workers |-> 0]
    /\ exitCalls = [w \in Workers |-> 0]
    /\ execLog = [w \in Workers |-> <<>>]
    /\ drainSnap = [w \in Workers |-> <<>>]
    /\ executing = [w \in Workers |-> {}]
    /\ heavyRun = [w \in Workers |-> 0]
    /\ stallMark = [w \in Workers |-> <<>>]
    /\ capRec = [w \in Workers |-> CapRecNone]
    /\ updateRec = [w \in Workers |-> "none"]
    /\ frameResult = [w \in Workers |-> "none"]
    /\ dropped = [w \in Workers |-> 0]
    /\ previewRec = [w \in Workers |-> PreviewRecNone]
    /\ ui_pc = "idle"
    /\ ui_w = NoWorker
    /\ ui_cmd = CaptureCmd
    /\ ui_next = "none"
    /\ uiq = <<>>
    /\ connected = [w \in Workers |-> {}]
    /\ finishedSlot = [w \in Workers |-> "none"]
    /\ killTimer = [w \in Workers |-> FALSE]
    /\ imgEmitted = [w \in Workers |-> 0]
    /\ imgDelivered = [w \in Workers |-> 0]
    /\ stoppedInCapture = [w \in Workers |-> FALSE]
    /\ askedSinceError = TRUE
    /\ uiCommands = 0
    /\ probeByRetry = FALSE
    /\ lv_thread = NoWorker
    /\ dead_thread = NoWorker
    /\ camera_ready = FALSE
    /\ needs_reconnect = FALSE
    /\ error_stopped = FALSE
    /\ stopping = FALSE
    /\ reconnecting = FALSE
    /\ capture_blocked = FALSE
    /\ btn_lv_enabled = TRUE
    /\ btn_lv_text = "START LIVE VIEW"
    /\ btn_cap_enabled = TRUE

\* One worker object whose thread has been started; its caller uses the API.
Init ==
    /\ InitObjects
    /\ wpc = [w \in Workers |-> IF w = 1 THEN "detect" ELSE "unborn"]
    /\ faultsLeft = -1
    /\ capturetarget \in {"ram", "card"}
    /\ view = "Camera"
    /\ nextWorker = MaxWorkers + 1
    /\ probe_running = FALSE

Next ==
    \/ WorkerStep(1)
    \/ \E c \in Commands : API_Enqueue(1, c)
    \/ UI_EnqEnd
    \/ API_Stop(1)
    \/ API_StopReturn

Spec == Init /\ [][Next]_vars


\* -------------------------------------------------------------- SpecQueue
\* update_camera_param (340-350) up to mutex.lock(), for the n-th value the
\* user sets on a control.
API_EnqueueNumbered(w) ==
    /\ ui_pc = "idle"
    /\ IsRunning(w)
    /\ uiCommands < MaxIssued
    /\ uiCommands' = uiCommands + 1
    /\ ui_pc' = "enq"
    /\ ui_w' = w
    /\ ui_cmd' = <<"iso", uiCommands + 1>>
    /\ UNCHANGED <<wvars, dvars, ovars, ui_next, qvars, imgEmitted,
                   imgDelivered, stoppedInCapture, askedSinceError,
                   probeByRetry, cvars>>

\* One worker on a device that answers every call, and a user who keeps
\* changing a parameter: the command queue under a burst of enqueues.
InitQueue ==
    /\ InitObjects
    /\ wpc = [w \in Workers |-> IF w = 1 THEN "detect" ELSE "unborn"]
    /\ faultsLeft = 0
    /\ capturetarget = "ram"
    /\ view = "Camera"
    /\ nextWorker = MaxWorkers + 1
    /\ probe_running = FALSE

NextQueue ==
    \/ W_Detect(1)
    \/ W_Init(1)
    \/ W_Config(1)
    \/ W_ConfigDone(1)
    \/ W_Loop(1)
    \/ W_DrainEnd(1)
    \/ W_ExecUpdate(1)
    \/ W_Preview(1)
    \/ API_EnqueueNumbered(1)
    \/ UI_EnqEnd

SpecQueue == InitQueue /\ [][NextQueue]_vars


\* ------------------------------------------------- the connection controller
\* Worker variables no UI handler writes.
wrest == <<capturing, camera, attempt, initial_config, consecutive_errors, fps_sleep,
           original_target, mutex>>

\* is_lv_active (camera_view.py 1177-1183).
IsLvActive == IsRunning(lv_thread) \/ IsRunning(dead_thread)

\* _probe_camera's three early returns (main_window.py 229-234).
ProbeStarts(lvActive, stop, probing) == ~lvActive /\ ~stop /\ ~probing

\* The signals _stop_lv and _on_lv_error disconnect (965-983, 1008-1027).
StopDisconnectsAll == Signals
StopDisconnects == Signals \ {"image_captured"}

\* signal.disconnect(): the slots go, and with them the deliveries still queued.
UndeliveredKept(q, w, sigs) == q
Undelivered(q, w, sigs) == SelectSeq(q, LAMBDA e : ~(e[1] = w /\ e[2] \in sigs))

\* on_probe_completed's first test (880-881): only a probe awaited by
\* _try_reconnect goes on to start live view.
AutoStartAlways(reconn) == TRUE
AutoStartAllowed(reconn) == reconn

\* _start_lv (902-929): a new GPhotoInterface, its signals connected, started.
StartLv ==
    /\ nextWorker <= MaxWorkers
    /\ lv_thread' = nextWorker
    /\ nextWorker' = nextWorker + 1
    /\ wpc' = [wpc EXCEPT ![nextWorker] = "detect"]
    /\ connected' = [connected EXCEPT ![nextWorker] = Signals]
    /\ error_stopped' = FALSE
    /\ btn_lv_enabled' = TRUE
    /\ btn_lv_text' = "STOP LIVE VIEW"
    /\ btn_cap_enabled' = TRUE

\* _stop_lv lines 934-958, up to dead_thread.mutex.lock(); next is what the
\* caller does after _stop_lv ("none": _toggle_liveview, else change_view).
StopBegin(next) ==
    /\ error_stopped' = FALSE
    /\ capture_blocked' = FALSE
    /\ lv_thread' = NoWorker
    /\ btn_cap_enabled' = FALSE
    /\ btn_lv_enabled' = FALSE
    /\ btn_lv_text' = "Stopping..."
    /\ stopping' = TRUE
    /\ keep_running' = [keep_running EXCEPT ![lv_thread] = FALSE]
    /\ stoppedInCapture' = [stoppedInCapture EXCEPT ![lv_thread] =
                                @ \/ wpc[lv_thread] = "capture"]
    /\ ui_pc' = "stop_lock"
    /\ ui_w' = lv_thread
    /\ ui_next' = next
    /\ UNCHANGED <<wpc, command_queue, wrest, dvars, ovars, ui_cmd, qvars,
                   imgEmitted, imgDelivered, askedSinceError, probeByRetry, uiCommands,
                   dead_thread, camera_ready, needs_reconnect, reconnecting,
                   view, probe_running, nextWorker>>

\* _toggle_liveview, first branch (854-856): live view runs, stop it.
UI_ClickStop ==
    /\ ui_pc = "idle" /\ view = "Camera" /\ btn_lv_enabled
    /\ IsRunning(lv_thread)
    /\ StopBegin("none")

\* _toggle_liveview, second branch (857-860), _try_reconnect (868-875) and
\* the _probe_camera it reaches through reconnect_requested.
UI_ClickReconnect ==
    /\ ui_pc = "idle" /\ view = "Camera" /\ btn_lv_enabled
    /\ ~IsRunning(lv_thread)
    /\ needs_reconnect
    /\ reconnecting' = TRUE
    /\ btn_lv_enabled' = FALSE
    /\ btn_lv_text' = "Connecting..."
    /\ probe_running' =
          (probe_running \/ ProbeStarts(IsLvActive, stopping, probe_running))
    /\ askedSinceError' = TRUE
    /\ probeByRetry' =
          (probeByRetry \/ ProbeStarts(IsLvActive, stopping, probe_running))
    /\ UNCHANGED <<wvars, dvars, ovars, uvars, qvars, imgEmitted,
                   imgDelivered, stoppedInCapture, uiCommands,
                   lv_thread, dead_thread, camera_ready, needs_reconnect,
                   error_stopped, stopping, capture_blocked, btn_cap_enabled,
                   view, nextWorker>>

\* _toggle_liveview, third branch (861-863): no camera known, probe only.
UI_ClickConnect ==
    /\ ui_pc = "idle" /\ view = "Camera" /\ btn_lv_enabled
    /\ ~IsRunning(lv_thread)
    /\ ~needs_reconnect
    /\ ~camera_ready
    /\ probe_running' =
          (probe_running \/ ProbeStarts(IsLvActive, stopping, probe_running))
    /\ askedSinceError' = TRUE
    /\ probeByRetry' =
          (probeByRetry /\ ~ProbeStarts(IsLvActive, stopping, probe_running))
    /\ UNCHANGED <<wvars, dvars, ovars, uvars, qvars, imgEmitted,
                   imgDelivered, stoppedInCapture, uiCommands,
                   lv_thread, dead_thread, camera_ready, needs_reconnect,
                   error_stopped, stopping, reconnecting, capture_blocked,
                   btn_lv_enabled, btn_lv_text, btn_cap_enabled, view,
                   nextWorker>>

\* _toggle_liveview, last branch (864-866): _start_lv.
UI_ClickStart ==
    /\ ui_pc = "idle" /\ view = "Camera" /\ btn_lv_enabled
    /\ ~IsRunning(lv_thread)
    /\ ~needs_reconnect
    /\ camera_ready
    /\ StartLv
    /\ askedSinceError' = TRUE
    /\ UNCHANGED <<probeByRetry, keep_running, command_queue, wrest, dvars, ovars, uvars,
                   uiq, finishedSlot, killTimer, imgEmitted, imgDelivered,
                   stoppedInCapture, uiCommands, dead_thread, camera_ready,
                   needs_reconnect, stopping, reconnecting, capture_blocked,
                   view, probe_running>>

\* _stop_lv lines 960-993 once the mutex is free: the queue is cleared, four
\* signals disconnected, finished connected and the 4 s timer armed (or
\* _on_thread_finished called when the thread is gone already); then, for a
\* view change, the rest of on_leave (1150-1175) and of change_view (215-224).
UI_StopEnd ==
    /\ ui_pc = "stop_lock"
    /\ ~mutex[ui_w]
    /\ command_queue' = [command_queue EXCEPT ![ui_w] = <<>>]
    /\ connected' = [connected EXCEPT ![ui_w] = @ \ StopDisconnects]
    /\ uiq' = Undelivered(uiq, ui_w, StopDisconnects)
    /\ finishedSlot' = [finishedSlot EXCEPT ![ui_w] =
                            IF IsRunning(ui_w) THEN "thread" ELSE @]
    /\ killTimer' = [killTimer EXCEPT ![ui_w] = @ \/ IsRunning(ui_w)]
    /\ stopping' = IsRunning(ui_w)
    /\ ui_pc' = "idle"
    /\ ui_w' = NoWorker
    /\ ui_next' = "none"
    /\ probeByRetry' =
          (probeByRetry /\ ~(/\ ui_next # "none"
                             /\ ProbeStarts(FALSE, IsRunning(ui_w),
                                            probe_running)))
    /\ IF ui_next = "none"
       THEN /\ btn_lv_text' = IF ~IsRunning(ui_w) /\ ~needs_reconnect
                              THEN "START LIVE VIEW" ELSE btn_lv_text
            /\ btn_lv_enabled' = IF ~IsRunning(ui_w) /\ ~needs_reconnect
                                 THEN camera_ready ELSE btn_lv_enabled
            /\ UNCHANGED <<dead_thread, needs_reconnect, error_stopped,
                           reconnecting, view, probe_running>>
       ELSE /\ dead_thread' = NoWorker
            /\ needs_reconnect' = FALSE
            /\ error_stopped' = FALSE
            /\ reconnecting' = FALSE
            /\ btn_lv_text' = "START LIVE VIEW"
            /\ btn_lv_enabled' = camera_ready
            /\ view' = ui_next
            /\ probe_running' =
                  (probe_running
                     \/ ProbeStarts(FALSE, IsRunning(ui_w), probe_running))
    /\ UNCHANGED <<wpc, keep_running, wrest, dvars, ovars, ui_cmd,
                   imgEmitted, imgDelivered, stoppedInCapture,
                   askedSinceError, uiCommands,
                   lv_thread, camera_ready, capture_blocked,
                   btn_cap_enabled, nextWorker>>

\* change_view (207-224) away from Camera while live view runs: on_leave
\* (1148-1149) enters _stop_lv.
UI_LeaveStop ==
    /\ ui_pc = "idle" /\ view = "Camera"
    /\ IsRunning(lv_thread)
    /\ StopBegin("Pictures")

\* change_view away from Camera with no live view running: on_leave
\* (1150-1175), the switch, _probe_camera.
UI_Leave ==
    /\ ui_pc = "idle" /\ view = "Camera"
    /\ ~IsRunning(lv_thread)
    /\ lv_thread' = NoWorker
    /\ dead_thread' = NoWorker
    /\ needs_reconnect' = FALSE
    /\ error_stopped' = FALSE
    /\ reconnecting' = FALSE
    /\ btn_lv_text' = "START LIVE VIEW"
    /\ btn_lv_enabled' = camera_ready
    /\ btn_cap_enabled' = FALSE
    /\ view' = "Pictures"
    /\ probeByRetry' =
          (probeByRetry /\ ~ProbeStarts(FALSE, stopping, probe_running))
    /\ probe_running' =
          (probe_running \/ ProbeStarts(FALSE, stopping, probe_running))
    /\ UNCHANGED <<wvars, dvars, ovars, uvars, qvars, imgEmitted, imgDelivered, stoppedInCapture,
                   askedSinceError, uiCommands,
                   camera_ready,
                   stopping, capture_blocked, nextWorker>>

\* change_view to Camera from another view: the switch and _probe_camera.
UI_Enter ==
    /\ ui_pc = "idle" /\ view # "Camera"
    /\ view' = "Camera"
    /\ probeByRetry' =
          (probeByRetry /\ ~ProbeStarts(IsLvActive, stopping, probe_running))
    /\ probe_running' =
          (probe_running \/ ProbeStarts(IsLvActive, stopping, probe_running))
    /\ UNCHANGED <<wvars, dvars, ovars, uvars, qvars, imgEmitted, imgDelivered, stoppedInCapture,
                   askedSinceError, uiCommands,
                   lv_thread,
                   dead_thread, camera_ready, needs_reconnect, error_stopped,
                   stopping, reconnecting, capture_blocked, btn_lv_enabled,
                   btn_lv_text, btn_cap_enabled, nextWorker>>

\* _on_capture_clicked (1089-1098) up to capture_photo's mutex.lock().
UI_ClickCapture ==
    /\ ui_pc = "idle" /\ view = "Camera" /\ btn_cap_enabled
    /\ IsRunning(lv_thread)
    /\ uiCommands < MaxCommands
    /\ Len(command_queue[lv_thread]) < MaxQueue
    /\ uiCommands' = uiCommands + 1
    /\ btn_cap_enabled' = FALSE
    /\ btn_lv_enabled' = FALSE
    /\ ui_pc' = "enq"
    /\ ui_w' = lv_thread
    /\ ui_cmd' = CaptureCmd
    /\ UNCHANGED <<wvars, dvars, ovars, ui_next, qvars, imgEmitted,
                   imgDelivered, stoppedInCapture, askedSinceError, probeByRetry,
                   lv_thread, dead_thread, camera_ready, needs_reconnect,
                   error_stopped, stopping, reconnecting, capture_blocked,
                   btn_lv_text, view, probe_running, nextWorker>>

\* A control panel's _flush_pending (exposure_controls.py 124-132 and the
\* like): with a worker attached, update_camera_param up to its mutex.lock().
UI_ParamChanged(c) ==
    /\ ui_pc = "idle" /\ view = "Camera"
    /\ lv_thread # NoWorker
    /\ uiCommands < MaxCommands
    /\ Len(command_queue[lv_thread]) < MaxQueue
    /\ uiCommands' = uiCommands + 1
    /\ ui_pc' = "enq"
    /\ ui_w' = lv_thread
    /\ ui_cmd' = c
    /\ UNCHANGED <<wvars, dvars, ovars, ui_next, qvars, imgEmitted,
                   imgDelivered, stoppedInCapture, askedSinceError, probeByRetry, cvars>>

\* _ProbeWorker.run (main_window.py 22-40): done is emitted with the result.
ProbeFinish ==
    /\ probe_running
    /\ Room
    /\ probe_running' = FALSE
    /\ \E ready \in BOOLEAN :
          uiq' = Append(uiq, <<NoWorker, "probe_done", ready, probeByRetry>>)
    /\ probeByRetry' = FALSE
    /\ UNCHANGED <<wvars, dvars, ovars, uvars, connected, finishedSlot,
                   killTimer, imgEmitted, imgDelivered, stoppedInCapture,
                   askedSinceError, uiCommands,
                   lv_thread, dead_thread, camera_ready,
                   needs_reconnect, error_stopped, stopping, reconnecting,
                   capture_blocked, btn_lv_enabled, btn_lv_text,
                   btn_cap_enabled, view, nextWorker>>

\* _force_terminate (1060-1067), fired by the 4 s single-shot timer.
UI_ForceTerminate(w) ==
    /\ ui_pc = "idle"
    /\ killTimer[w]
    /\ Room
    /\ killTimer' = [killTimer EXCEPT ![w] = FALSE]
    /\ wpc' = IF IsRunning(w) THEN [wpc EXCEPT ![w] = "killed"] ELSE wpc
    /\ uiq' = IF IsRunning(w) THEN PostedFinished(uiq, w) ELSE uiq
    /\ IF IsRunning(w) THEN LocalsGone(w) ELSE LocalsKept
    /\ UNCHANGED <<keep_running, capturing, camera, command_queue, mutex,
                   dvars, nErr, opens, exitCalls, nSettings, uvars, connected,
                   finishedSlot, gvars, cvars>>

\* _update_frame (773-780): a good frame lifts the capture block.
UI_FrameReceived ==
    /\ ui_pc = "idle" /\ uiq # <<>>
    /\ Head(uiq)[2] = "frame_received"
    /\ uiq' = Tail(uiq)
    /\ capture_blocked' = FALSE
    /\ btn_cap_enabled' = IF capture_blocked /\ IsRunning(lv_thread)
                          THEN TRUE ELSE btn_cap_enabled
    /\ UNCHANGED <<wvars, dvars, ovars, uvars, connected, finishedSlot,
                   killTimer, gvars, lv_thread, dead_thread, camera_ready,
                   needs_reconnect, error_stopped, stopping, reconnecting,
                   btn_lv_enabled, btn_lv_text, view, probe_running,
                   nextWorker>>

\* sync_with_camera of the three control panels (913-915): display only.
UI_SettingsLoaded ==
    /\ ui_pc = "idle" /\ uiq # <<>>
    /\ Head(uiq)[2] = "settings_loaded"
    /\ uiq' = Tail(uiq)
    /\ UNCHANGED <<wvars, dvars, ovars, uvars, connected, finishedSlot,
                   killTimer, gvars, cvars>>

\* _on_image_captured (1100-1126): the preview dialog opens.
UI_ImageCaptured ==
    /\ ui_pc = "idle" /\ uiq # <<>>
    /\ Head(uiq)[2] = "image_captured"
    /\ uiq' = Tail(uiq)
    /\ imgDelivered' = [imgDelivered EXCEPT ![Head(uiq)[1]] = @ + 1]
    /\ btn_cap_enabled' = IsRunning(lv_thread)
    /\ btn_lv_enabled' = IsRunning(lv_thread)
    /\ UNCHANGED <<wvars, dvars, ovars, uvars, connected, finishedSlot,
                   killTimer, imgEmitted, stoppedInCapture, askedSinceError, probeByRetry,
                   uiCommands, lv_thread, dead_thread, camera_ready,
                   needs_reconnect, error_stopped, stopping, reconnecting,
                   capture_blocked, btn_lv_text, view, probe_running,
                   nextWorker>>

\* _on_capture_failed (1134-1141).
UI_CaptureFailed ==
    /\ ui_pc = "idle" /\ uiq # <<>>
    /\ Head(uiq)[2] = "capture_failed"
    /\ uiq' = Tail(uiq)
    /\ capture_blocked' = TRUE
    /\ btn_cap_enabled' = FALSE
    /\ btn_lv_enabled' = TRUE
    /\ UNCHANGED <<wvars, dvars, ovars, uvars, connected, finishedSlot,
                   killTimer, gvars, lv_thread, dead_thread, camera_ready,
                   needs_reconnect, error_stopped, stopping, reconnecting,
                   btn_lv_text, view, probe_running, nextWorker>>

\* _on_thread_finished (1073-1080), as the slot of finished after _stop_lv.
UI_ThreadFinished ==
    /\ ui_pc = "idle" /\ uiq # <<>>
    /\ Head(uiq)[2] = "finished"
    /\ finishedSlot[Head(uiq)[1]] = "thread"
    /\ uiq' = Tail(uiq)
    /\ stopping' = FALSE
    /\ btn_lv_text' = IF ~needs_reconnect THEN "START LIVE VIEW"
                      ELSE btn_lv_text
    /\ btn_lv_enabled' = IF ~needs_reconnect THEN camera_ready
                         ELSE btn_lv_enabled
    /\ UNCHANGED <<wvars, dvars, ovars, uvars, connected, finishedSlot,
                   killTimer, gvars, lv_thread, dead_thread, camera_ready,
                   needs_reconnect, error_stopped, reconnecting,
                   capture_blocked, btn_cap_enabled, view, probe_running,
                   nextWorker>>

\* _on_dead_thread_finished (1069-1071), the slot set by _on_lv_error.
UI_DeadThreadFinished ==
    /\ ui_pc = "idle" /\ uiq # <<>>
    /\ Head(uiq)[2] = "finished"
    /\ finishedSlot[Head(uiq)[1]] = "dead"
    /\ uiq' = Tail(uiq)
    /\ dead_thread' = NoWorker
    /\ UNCHANGED <<wvars, dvars, ovars, uvars, connected, finishedSlot,
                   killTimer, gvars, lv_thread, camera_ready,
                   needs_reconnect, error_stopped, stopping, reconnecting,
                   capture_blocked, btn_lv_enabled, btn_lv_text,
                   btn_cap_enabled, view, probe_running, nextWorker>>

\* _on_lv_error lines 997-1052, up to dead_thread.mutex.lock() when the
\* worker still runs, to the end otherwise.
UI_LvError ==
    /\ ui_pc = "idle" /\ uiq # <<>>
    /\ Head(uiq)[2] = "error_occurred"
    /\ reconnecting' = FALSE
    /\ stopping' = FALSE
    /\ lv_thread' = NoWorker
    /\ IF lv_thread # NoWorker
       THEN /\ connected' = [connected EXCEPT ![lv_thread] =
                                  @ \ StopDisconnects]
            /\ uiq' = Undelivered(Tail(uiq), lv_thread, StopDisconnects)
            /\ stoppedInCapture' = [stoppedInCapture EXCEPT ![lv_thread] =
                                        @ \/ wpc[lv_thread] = "capture"]
       ELSE /\ uiq' = Tail(uiq)
            /\ UNCHANGED <<connected, stoppedInCapture>>
    /\ btn_cap_enabled' = FALSE
    /\ needs_reconnect' = TRUE
    /\ error_stopped' = TRUE
    /\ camera_ready' = FALSE
    /\ btn_lv_text' = "RECONNECT"
    /\ btn_lv_enabled' = TRUE
    /\ askedSinceError' = FALSE
    /\ IF IsRunning(lv_thread)
       THEN /\ dead_thread' = lv_thread
            /\ keep_running' = [keep_running EXCEPT ![lv_thread] = FALSE]
            /\ ui_pc' = "err_lock"
            /\ ui_w' = lv_thread
       ELSE UNCHANGED <<dead_thread, keep_running, ui_pc, ui_w>>
    /\ UNCHANGED <<probeByRetry, wpc, command_queue, wrest, dvars, ovars, ui_cmd, ui_next,
                   finishedSlot, killTimer, imgEmitted, imgDelivered,
                   uiCommands, capture_blocked, view, probe_running,
                   nextWorker>>

\* _on_lv_error lines 1052-1058 once the mutex is free.
UI_LvErrorEnd ==
    /\ ui_pc = "err_lock"
    /\ ~mutex[ui_w]
    /\ command_queue' = [command_queue EXCEPT ![ui_w] = <<>>]
    /\ finishedSlot' = [finishedSlot EXCEPT ![ui_w] = "dead"]
    /\ killTimer' = [killTimer EXCEPT ![ui_w] = TRUE]
    /\ ui_pc' = "idle"
    /\ ui_w' = NoWorker
    /\ UNCHANGED <<wpc, keep_running, wrest, dvars, ovars, ui_cmd,
                   ui_next, uiq, connected, gvars, cvars>>

\* set_camera_ready (807-838) as _on_probe_done calls it (main_window.py 244).
LvTextAfterReady(ready) ==
    IF reconnecting \/ stopping \/ needs_reconnect THEN btn_lv_text
    ELSE IF ~ready THEN "CONNECT CAMERA"
    ELSE IF ~IsRunning(lv_thread) THEN "START LIVE VIEW"
    ELSE btn_lv_text
LvEnabledAfterReady(ready) ==
    IF reconnecting \/ stopping \/ needs_reconnect THEN btn_lv_enabled
    ELSE IF ~ready THEN TRUE
    ELSE IF ~IsRunning(lv_thread) THEN TRUE
    ELSE btn_lv_enabled
CapEnabledAfterReady(ready) ==
    IF ~IsRunning(lv_thread) THEN FALSE ELSE btn_cap_enabled

\* _on_probe_done (240-252) for a probe nobody awaits: set_camera_ready, and
\* on_probe_completed returns at once (880-881).
UI_ProbeDonePlain ==
    /\ ui_pc = "idle" /\ uiq # <<>>
    /\ Head(uiq)[2] = "probe_done"
    /\ ~AutoStartAllowed(reconnecting)
    /\ uiq' = Tail(uiq)
    /\ camera_ready' = Head(uiq)[3]
    /\ btn_lv_text' = LvTextAfterReady(Head(uiq)[3])
    /\ btn_lv_enabled' = LvEnabledAfterReady(Head(uiq)[3])
    /\ btn_cap_enabled' = CapEnabledAfterReady(Head(uiq)[3])
    /\ UNCHANGED <<wvars, dvars, ovars, uvars, connected, finishedSlot,
                   killTimer, gvars, lv_thread, dead_thread, needs_reconnect,
                   error_stopped, stopping, reconnecting, capture_blocked,
                   view, probe_running, nextWorker>>

\* _on_probe_done for an awaited probe that found the camera:
\* set_camera_ready, then on_probe_completed 882, 890-894 and _start_lv.
UI_ProbeDoneStart ==
    /\ ui_pc = "idle" /\ uiq # <<>>
    /\ Head(uiq)[2] = "probe_done"
    /\ AutoStartAllowed(reconnecting)
    /\ ~stopping
    /\ Head(uiq)[3] /\ ~IsRunning(lv_thread)
    /\ uiq' = Tail(uiq)
    /\ camera_ready' = TRUE
    /\ reconnecting' = FALSE
    /\ needs_reconnect' = FALSE
    /\ StartLv
    /\ UNCHANGED <<keep_running, command_queue, wrest, dvars, ovars, uvars,
                   finishedSlot, killTimer, gvars, dead_thread, stopping,
                   capture_blocked, view, probe_running>>

\* _on_probe_done for an awaited probe that cannot start live view:
\* set_camera_ready, then on_probe_completed 882-889 or 895-900.
UI_ProbeDoneRetryFailed ==
    /\ ui_pc = "idle" /\ uiq # <<>>
    /\ Head(uiq)[2] = "probe_done"
    /\ AutoStartAllowed(reconnecting)
    /\ ~(~stopping /\ Head(uiq)[3] /\ ~IsRunning(lv_thread))
    /\ uiq' = Tail(uiq)
    /\ camera_ready' = Head(uiq)[3]
    /\ reconnecting' = FALSE
    /\ needs_reconnect' = TRUE
    /\ btn_lv_text' = "RECONNECT"
    /\ btn_lv_enabled' = TRUE
    /\ btn_cap_enabled' = CapEnabledAfterReady(Head(uiq)[3])
    /\ UNCHANGED <<wvars, dvars, ovars, uvars, connected, finishedSlot,
                   killTimer, gvars, lv_thread, dead_thread, error_stopped,
                   stopping, capture_blocked, view, probe_running,
                   nextWorker>>

\* ---------------------------------------------------------------- SpecCtl
\* MainWindow.__init__ (main_window.py 115-123): no worker exists, the start
\* view is shown and change_view has started the first probe.
InitCtl ==
    /\ InitObjects
    /\ wpc = [w \in Workers |-> "unborn"]
    /\ faultsLeft = MaxFaults
    /\ capturetarget = "ram"
    /\ view = "Camera"
    /\ nextWorker = 1
    /\ probe_running = TRUE

NextCtl ==
    \/ \E w \in Workers : WorkerStep(w)
    \/ UI_ClickStop
    \/ UI_ClickReconnect
    \/ UI_ClickConnect
    \/ UI_ClickStart
    \/ UI_StopEnd
    \/ UI_LeaveStop
    \/ UI_Leave
    \/ UI_Enter
    \/ UI_ClickCapture
    \/ \E c \in ParamCmds : UI_ParamChanged(c)
    \/ UI_EnqEnd
    \/ ProbeFinish
    \/ \E w \in Workers : UI_ForceTerminate(w)
    \/ UI_FrameReceived
    \/ UI_SettingsLoaded
    \/ UI_ImageCaptured
    \/ UI_CaptureFailed
    \/ UI_ThreadFinished
    \/ UI_DeadThreadFinished
    \/ UI_LvError
    \/ UI_LvErrorEnd
    \/ UI_ProbeDonePlain
    \/ UI_ProbeDoneStart
    \/ UI_ProbeDoneRetryFailed

SpecCtl == InitCtl /\ [][NextCtl]_vars

\* ======================================================== the worker claims

\* C1: the commands of one drain pass are executed in their enqueue (FIFO)
\* order -- what has been executed, followed by what is still queued, is the
\* queue as the pass found it -- and a worker never has two commands in
\* execution at once.
C1_FifoSequential ==
    \A w \in Workers :
        /\ Cardinality(executing[w]) <= 1
        /\ wpc[w] \in {"drain", "capture", "cap_finally"}
              => execLog[w] \o command_queue[w] = drainSnap[w]

C1_Witness ==
    \E w \in Workers : execLog[w] = <<<<"iso", "400">>, CaptureCmd>>

\* C3: when run() has returned, by whichever path, every session the worker
\* opened has been closed by exactly one camera.exit call and the worker holds
\* no camera handle; no session is ever closed more often than it was opened.
C3_SessionClosedOnce ==
    \A w \in Workers :
        /\ exitCalls[w] <= opens[w]
        /\ wpc[w] = "done" => (camera[w] = "none" /\ exitCalls[w] = opens[w])

C3_Witness ==
    \E w \in Workers : wpc[w] = "done" /\ opens[w] = 1 /\ nErr[w] = 1

\* C4 (as claimed): once HeavyLimit consecutive Heavy frame errors have been
\* counted, the worker has emitted the fatal error event.
C4_HeavyFailsFast ==
    \A w \in Workers : heavyRun[w] >= HeavyLimit => nErr[w] >= 1

\* C5: a successful preview-frame iteration leaves the consecutive-error
\* counter at exactly 0 whatever it was before; a failed one raises it; and
\* while run() goes on no other step lowers it.
FrameOkStep(w) ==
    /\ frameResult[w] = "none"
    /\ frameResult'[w] \in {"ok", "ok_after_errors"}
FrameFailStep(w) ==
    /\ frameResult[w] = "none"
    /\ frameResult'[w] \in {"fail", "fail_exc"}
C6_StallRestarts ==
    \A w \in Workers :
        (wpc[w] = "preview" /\ stallMark[w] # <<>>)
            => /\ exitCalls[w] = stallMark[w][1] + 1
               /\ opens[w] = stallMark[w][2] + 1

\* C7 (as claimed): when _execute_capture has returned, a capture-destination
\* that step 1 changed is back at its value before the call, and no restoring
\* write was issued when step 1 changed nothing.
Returned(w) == capRec[w].after \notin {"none", "pending"}
C10_ErrorTerminal ==
    \A w \in Workers :
        /\ nErr[w] <= 1
        /\ nErr[w] = 1 => wpc[w] \in {"finally", "done", "killed"}

C10_Witness ==
    \E w \in Workers : nErr[w] = 1 /\ wpc[w] = "finally" /\ opens[w] = 1

\* C11: a capture failure other than a trigger timeout emits capture_failed
\* and not error_occurred, leaves keep_running, the consecutive-error counter
\* and the queued commands as they were, and the worker goes on: through the
\* finally of _execute_capture back to the drain, and from there to the next
\* queued command or the preview-frame attempt, never to run()'s exit.
CaptureFails(w) == capRec[w].shot = "pending" /\ capRec'[w].shot = "failed"
C11_CaptureFailureNonFatal ==
    [][\A w \in Workers :
         /\ CaptureFails(w)
               => /\ capRec'[w].signal = "capture_failed"
                  /\ nErr'[w] = nErr[w]
                  /\ keep_running'[w] = keep_running[w]
                  /\ consecutive_errors'[w] = consecutive_errors[w]
                  /\ command_queue'[w] = command_queue[w]
                  /\ wpc'[w] = "cap_finally"
         /\ (capRec[w].shot = "failed" /\ wpc[w] = "cap_finally"
               /\ wpc'[w] # "killed")
               => /\ wpc'[w] \in {"cap_finally", "drain"}
                  /\ nErr'[w] = nErr[w]
                  /\ consecutive_errors'[w] = consecutive_errors[w]
                  /\ command_queue'[w] = command_queue[w]
         /\ (capRec[w].shot = "failed" /\ wpc[w] = "drain"
               /\ wpc'[w] # "killed")
               => /\ wpc'[w] \in {"drain", "capture", "preview"}
                  /\ nErr'[w] = nErr[w]
                  /\ consecutive_errors'[w] = consecutive_errors[w]
      ]_vars

\* A capture has failed, _execute_capture has returned, and a command that
\* was queued behind it is still to be executed.
C11_Witness ==
    \E w \in Workers :
        /\ wpc[w] = "drain"
        /\ capRec[w].shot = "failed"
        /\ capRec[w].signal = "capture_failed"
        /\ command_queue[w] # <<>>
        /\ keep_running[w]
        /\ nErr[w] = 0

\* The worker is inside a device call of a queued command, or about to make
\* the next one of its drain pass.
ExecutingCommandIO(w) ==
    \/ wpc[w] \in {"capture", "cap_finally"}
    \/ wpc[w] = "drain" /\ command_queue[w] # <<>>
\* The UI thread is blocked in mutex.lock() of worker w.
WaitsOnMutex(w) ==
    ui_pc \in {"enq", "stop_lock", "err_lock"} /\ ui_w = w /\ mutex[w]

\* C12 (as claimed): no caller (update_camera_param, capture_photo, the
\* controller's queue clear) ever waits on the command-queue mutex while the
\* worker is executing a capture or a parameter write.
C12_NoWaitDuringDeviceIO ==
    \A w \in Workers : ~(WaitsOnMutex(w) /\ ExecutingCommandIO(w))

\* update_camera_param / capture_photo appends its command.
EnqueueStep(w) == ui_pc = "enq" /\ ui_w = w /\ ui_pc' = "idle"

\* C13: the command queue never holds more than QUEUE_MAXLEN (32) commands;
\* every enqueue succeeds -- the new command is the last of the queue -- and
\* an enqueue on a full queue discards exactly the oldest pending command
\* and keeps the others, in their order, in front of the new one.
C13_QueueBoundedDropsOldest ==
    [][\A w \in Workers :
         /\ Len(command_queue'[w]) <= QUEUE_MAXLEN
         /\ EnqueueStep(w)
               => /\ command_queue'[w] # <<>>
                  /\ command_queue'[w][Len(command_queue'[w])] = ui_cmd
                  /\ Len(command_queue[w]) < QUEUE_MAXLEN
                        => command_queue'[w] = Append(command_queue[w], ui_cmd)
                  /\ Len(command_queue[w]) >= QUEUE_MAXLEN
                        => command_queue'[w] =
                              Append(Tail(command_queue[w]), ui_cmd)
      ]_vars

\* 33 parameter changes were enqueued before the worker reached its loop:
\* the queue is full, the first change is gone, the 33rd is the newest.
C13_Witness ==
    \E w \in Workers :
        /\ wpc[w] = "config"
        /\ uiCommands = QUEUE_MAXLEN + 1
        /\ ui_pc = "idle"
        /\ Len(command_queue[w]) = QUEUE_MAXLEN
        /\ command_queue[w][1] = <<"iso", 2>>
        /\ command_queue[w][QUEUE_MAXLEN] = <<"iso", QUEUE_MAXLEN + 1>>

\* C14 (as claimed): whenever a worker has emitted error_occurred, the device
\* session it had opened has already been closed.
C14_ClosedBeforeError ==
    \A w \in Workers : nErr[w] >= 1 => camera[w] # "open"

\* A preview-frame attempt fails with a Light or Generic error (or with an
\* exception that is no GPhoto2Error): the run of Heavy errors ends.
LightOrGenericFails(w) == FrameFailStep(w) /\ heavyRun'[w] = 0

\* C15: a Light or Generic frame failure raises the consecutive-error count
\* by one, and error_occurred is emitted in that step exactly when the count
\* thereby reaches MAX_CONSECUTIVE_ERRORS (20): then keep_running is cleared
\* and the loop left, and below 20 the loop goes on with no error event.  In
\* the loop error_occurred is emitted by no other step than a frame failure
\* that brings the count to 20.
C15_FatalAtTotalLimit ==
    [][\A w \in Workers :
         /\ LightOrGenericFails(w)
               => /\ consecutive_errors'[w] = consecutive_errors[w] + 1
                  /\ consecutive_errors'[w] <= MAX_CONSECUTIVE_ERRORS
                  /\ consecutive_errors'[w] = MAX_CONSECUTIVE_ERRORS
                        => /\ nErr'[w] = nErr[w] + 1
                           /\ ~keep_running'[w]
                           /\ wpc'[w] = "finally"
                  /\ consecutive_errors'[w] < MAX_CONSECUTIVE_ERRORS
                        => /\ nErr'[w] = nErr[w]
                           /\ wpc'[w] = "loop"
         /\ (opens[w] >= 1 /\ nErr'[w] # nErr[w])
               => /\ FrameFailStep(w)
                  /\ consecutive_errors'[w] = MAX_CONSECUTIVE_ERRORS
      ]_vars

\* The twentieth consecutive failure, a Light or Generic one, has just made
\* the worker emit error_occurred and leave the loop.
C15_Witness ==
    \E w \in Workers :
        /\ consecutive_errors[w] = MAX_CONSECUTIVE_ERRORS
        /\ frameResult[w] = "fail"
        /\ heavyRun[w] = 0
        /\ nErr[w] = 1
        /\ ~keep_running[w]

\* ==================================================== the controller claims

\* C2 (as claimed): in every reachable state of the controller at most one
\* worker thread is running (started, run() not returned, not terminated), so
\* no worker is ever started while an earlier one is still closing.
C2_OneWorkerRunning ==
    Cardinality({w \in Workers : IsRunning(w)}) <= 1

\* C8: stopping and error handling never take the image_captured slot away
\* from a started worker, and no queued image_captured delivery is ever
\* dropped: every one a worker has emitted has been handled by
\* _on_image_captured or still waits in the UI thread's event queue -- also
\* when the stop or the error handling came while the capture was in flight.
QueuedImages(w) ==
    Cardinality({i \in 1..Len(uiq) :
                    uiq[i][1] = w /\ uiq[i][2] = "image_captured"})
C8_ImageCapturedSurvivesStop ==
    \A w \in Workers :
        /\ wpc[w] # "unborn" => "image_captured" \in connected[w]
        /\ imgEmitted[w] = imgDelivered[w] + QueuedImages(w)

C8_Witness ==
    \E w \in Workers :
        /\ stoppedInCapture[w]
        /\ lv_thread # w
        /\ imgDelivered[w] = 1

\* The step in which the controller handles its worker's error leaves it in
\* NeedsReconnect with the worker detached; from then until the user clicks
\* the live-view button again no worker is created or attached.
ErrorDetaches ==
    /\ (askedSinceError /\ ~askedSinceError')
          => (needs_reconnect' /\ error_stopped' /\ lv_thread' = NoWorker)
    /\ ~askedSinceError'
          => (nextWorker' = nextWorker /\ lv_thread' = NoWorker)
\* _on_probe_done handles the completion at the head of the event queue.
ProbeDoneStep ==
    /\ uiq # <<>>
    /\ Head(uiq)[2] = "probe_done"
    /\ uiq' = Tail(uiq)

\* C9 (as claimed): error handling detaches the worker and leaves the
\* controller in NeedsReconnect, no worker is created until the user asks
\* again, and the completion of a probe that _try_reconnect did not start
\* never creates a worker.
C9_NoStartWithoutRetry ==
    [][/\ ErrorDetaches
       /\ (ProbeDoneStep /\ ~Head(uiq)[4]) => nextWorker' = nextWorker
      ]_vars

\* C9 (amended): error handling detaches the worker and leaves the controller
\* in NeedsReconnect, no worker is created until the user asks again, and a
\* probe completion handled while no retry is awaiting a result (_reconnecting
\* is not set) never creates a worker.
C9_NoStartUnlessRetryAwaits ==
    [][/\ ErrorDetaches
       /\ (ProbeDoneStep /\ ~reconnecting) => nextWorker' = nextWorker
      ]_vars

\* Worker w emitted its error, _on_lv_error detached it, and after a retry a
\* new worker runs.
C9_Witness ==
    \E w \in Workers :
        /\ nErr[w] = 1
        /\ finishedSlot[w] = "dead"
        /\ lv_thread \notin {NoWorker, w}
        /\ IsRunning(lv_thread)
        /\ askedSinceError

\* The workers _stop_lv has asked to stop and whose exit it awaits.
StoppedWorkers == {w \in Workers : finishedSlot[w] = "thread"}

\* C16 (as claimed): the stop action puts the controller in Stopping;
\* _stopping is cleared only when the stopped worker has exited; and while
\* _stopping is set no worker is started and no probe is issued.
C16_StoppingWaitsForExit ==
    [][/\ (ui_pc = "idle" /\ ui_pc' = "stop_lock") => stopping'
       /\ (stopping /\ ~stopping')
             => \A w \in StoppedWorkers : ~IsRunning(w)
       /\ stopping => nextWorker' = nextWorker
       /\ (~probe_running /\ probe_running') => ~stopping'
      ]_vars

\* ------------------------------------------------------------ SpecCtlFair
\* The UI thread's event loop keeps running: a handler whose event is at the
\* head of the queue runs, a lock that has become free is taken, a due timer
\* fires once the loop is idle and the probe thread ends.  A worker goes on
\* where it makes no device call (the while test with the lock, the unlock
\* after the drain).  Nothing is assumed of the user, and nothing of the
\* device: a worker may stay for ever inside the device call it is making.
UI_HandleEvent ==
    \/ UI_FrameReceived
    \/ UI_SettingsLoaded
    \/ UI_ImageCaptured
    \/ UI_CaptureFailed
    \/ UI_ThreadFinished
    \/ UI_DeadThreadFinished
    \/ UI_LvError
    \/ UI_ProbeDonePlain
    \/ UI_ProbeDoneStart
    \/ UI_ProbeDoneRetryFailed
FairCtl ==
    /\ WF_vars(UI_HandleEvent)
    /\ WF_vars(UI_StopEnd)
    /\ WF_vars(UI_LvErrorEnd)
    /\ WF_vars(UI_EnqEnd)
    /\ WF_vars(ProbeFinish)
    /\ \A w \in Workers : SF_vars(UI_ForceTerminate(w))
    /\ \A w \in Workers : WF_vars(W_Loop(w)) /\ WF_vars(W_DrainEnd(w))
    /\ \A w \in Workers : WF_vars(W_ConfigDone(w))
SpecCtlFair == SpecCtl /\ FairCtl

\* C17 (as claimed): a worker that has been asked to stop, or whose error is
\* being handled, and that never returns from run() by itself does not make
\* the controller wait for ever: the controller eventually leaves Stopping,
\* respectively eventually no longer tracks the worker as dead.
C17_ForcedExitUnblocks ==
    \A w \in Workers :
        /\ (ui_pc = "stop_lock" /\ ui_w = w)
              ~> (~stopping \/ wpc[w] = "done")
        /\ (ui_pc = "err_lock" /\ ui_w = w)
              ~> (dead_thread # w \/ wpc[w] = "done")

\* _try_reconnect runs: the retry action in NeedsReconnect.
RetryStep == needs_reconnect /\ ~reconnecting /\ reconnecting'

\* C18 (as claimed): the retry action in NeedsReconnect leaves the controller
\* Reconnecting with a device probe under way; the completion of the awaited
\* probe with the camera present starts a new worker at once and clears
\* NeedsReconnect; its completion with no camera puts the controller back in
\* NeedsReconnect with the retry action available and starts no worker.
C18_RetryProbesThenStarts ==
    [][/\ RetryStep => probe_running'
       /\ (ProbeDoneStep /\ reconnecting /\ Head(uiq)[3])
             => /\ nextWorker' = nextWorker + 1
                /\ lv_thread' = nextWorker
                /\ wpc'[nextWorker] = "detect"
                /\ ~needs_reconnect'
                /\ ~reconnecting'
       /\ (ProbeDoneStep /\ reconnecting /\ ~Head(uiq)[3])
             => /\ nextWorker' = nextWorker
                /\ needs_reconnect'
                /\ ~reconnecting'
                /\ btn_lv_enabled'
                /\ btn_lv_text' = "RECONNECT"
      ]_vars

\* _probe_camera starts a _ProbeWorker.
ProbeStartStep == ~probe_running /\ probe_running'

\* C19 (as claimed): a worker tracked as dying stays tracked until it no
\* longer runs, and no probe is started while a worker -- dying after its
\* error, or being stopped -- is still running.
C19_NoProbeWhileWorkerCloses ==
    [][/\ \A w \in Workers :
             (dead_thread = w /\ dead_thread' # w) => ~IsRunning(w)
       /\ ProbeStartStep => \A w \in Workers : ~IsRunning(w)
      ]_vars

\* C20 (as claimed): frame_received is emitted for every preview capture that
\* succeeded -- recovery previews and previews whose event poll failed
\* included -- and for nothing else: in every step of a worker the frames
\* emitted are as many as the previews taken, so the two totals are equal.
C20_FramePerPreview ==
    \A w \in Workers : previewRec[w].shown <=> previewRec[w].taken

\* C20 (amended): frame_received is emitted exactly once for each iteration
\* of the loop whose preview capture and whose event poll both succeeded,
\* and never otherwise: no frame is emitted for a preview whose event poll
\* failed nor for a recovery preview, and none without a preview taken.
C20_FramePerPolledPreview ==
    \A w \in Workers :
        /\ previewRec[w].shown
              <=> (/\ previewRec[w].kind = "frame"
                   /\ previewRec[w].taken
                   /\ previewRec[w].polled)
        /\ previewRec[w].shown
              <=> (/\ wpc[w] = "loop"
                   /\ frameResult[w] \in {"ok", "ok_after_errors"})

\* A preview was taken, the event poll after it failed, and the iteration
\* ended as a failed one with no frame emitted.
C20_Witness ==
    \E w \in Workers :
        /\ previewRec[w].kind = "frame"
        /\ previewRec[w].taken
        /\ ~previewRec[w].polled
        /\ ~previewRec[w].shown
        /\ frameResult[w] = "fail"
        /\ consecutive_errors[w] = 1


\* ------------------------------------------- startup, drain and capture claims
\* C21: settings_loaded is emitted exactly once by a worker whose startup
\* configuration fetch found every expected parameter, after at most
\* CONFIG_ATTEMPTS reads, in the step that precedes the loop (so before any
\* frame), and never once the loop has begun.
C21_SettingsLoadedOnce ==
    [][\A w \in Workers :
         /\ nSettings'[w] # nSettings[w]
                => /\ nSettings[w] = 0
                   /\ nSettings'[w] = 1
                   /\ wpc[w] = "config_done"
                   /\ wpc'[w] = "loop"
         /\ (wpc[w] = "config_done" /\ wpc'[w] = "loop"
                                    /\ initial_config[w] = "complete")
                => nSettings'[w] = 1
         /\ wpc[w] = "config" => attempt[w] < CONFIG_ATTEMPTS
         /\ wpc'[w] = "config_done" => wpc[w] \in {"config", "config_done"}
         /\ wpc'[w] = "config" => wpc[w] \in {"init", "config"}
         /\ (previewRec'[w] # previewRec[w] /\ previewRec'[w].shown)
                => wpc[w] = "preview"
      ]_vars

\* A worker that emitted settings_loaded once has since shown a frame.
C21_Witness ==
    \E w \in Workers :
        /\ nSettings[w] = 1
        /\ previewRec[w].kind = "frame"
        /\ previewRec[w].shown

\* What a step does to worker w's queue.
ExecutesHead(w) ==
    /\ command_queue[w] # <<>>
    /\ execLog'[w] = Append(execLog[w], Head(command_queue[w]))
    /\ command_queue'[w] = Tail(command_queue[w])
ClearsAfterFrameError(w) ==
    /\ wpc[w] = "preview"
    /\ frameResult'[w] = "fail"
    /\ command_queue'[w] = <<>>
AppendsCallersCommand(w) ==
    /\ ui_pc = "enq"
    /\ ui_w = w
    /\ command_queue'[w] = DequeAppend(command_queue[w], ui_cmd)

\* C22 (amended): a command is consumed at most once. The step that executes
\* a command is the step that takes it from the head of the queue; the only
\* other changes of the queue are the clear after a failed frame and the
\* caller's append, so nothing is queued again; and a drain pass ends only
\* when the queue is empty, so a command that a pass finds is executed in it.
C22_ConsumedAtMostOnce ==
    [][\A w \in Workers :
         /\ (execLog'[w] # execLog[w] /\ execLog'[w] # <<>>)
                => ExecutesHead(w)
         /\ command_queue'[w] # command_queue[w]
                => \/ ExecutesHead(w)
                   \/ ClearsAfterFrameError(w)
                   \/ AppendsCallersCommand(w)
         /\ (wpc[w] = "drain" /\ wpc'[w] = "preview")
                => command_queue[w] = <<>>
      ]_vars

\* C22 (as claimed): in addition, every command that was not discarded is
\* executed: none is left in the queue of a worker that has ended.
C22_ConsumedExactlyOnce ==
    /\ C22_ConsumedAtMostOnce
    /\ [](\A w \in Workers :
             wpc[w] \in {"done", "killed"} => command_queue[w] = <<>>)

\* The first of two queued commands has been executed and is gone from the
\* queue; the second is still to come in the same pass.
C22_Witness ==
    \E w \in Workers :
        /\ wpc[w] = "drain"
        /\ Len(drainSnap[w]) = 2
        /\ execLog[w] = <<drainSnap[w][1]>>
        /\ command_queue[w] = <<drainSnap[w][2]>>

\* C23: with the queue holding a parameter write of iso to 400 and then a
\* capture request for a directory, one drain pass applies the write first
\* and then runs the capture, and image_captured carries the path
\* <directory>/<timestamp>_<device file name>: a file directly under the
\* directory the caller gave.
C23_IsoThenCaptureUnderDir ==
    \A w \in Workers :
        (/\ drainSnap[w] = <<(<<"iso", "400">>), CaptureCmd>>
         /\ capRec[w].signal = "image_captured")
            => /\ execLog[w] = drainSnap[w]
               /\ capRec[w].path =
                      <<CaptureCmd[2], StampedName(TIMESTAMP, DEVICE_FILE)>>

\* C30: a failure of the device-side file delete is not propagated: whenever
\* trigger, download and local save succeeded, the capture emits
\* image_captured with the local path, and not capture_failed, whether the
\* delete succeeded or failed.
C30_DeleteFailureSwallowed ==
    \A w \in Workers :
        capRec[w].shot = "ok"
            => /\ capRec[w].deleted \in {"ok", "failed"}
               /\ capRec[w].signal = "image_captured"
               /\ capRec[w].path =
                      LocalPath(CaptureCmd[2], TIMESTAMP, DEVICE_FILE)

\* A capture whose picture was saved and whose delete on the device failed
\* has emitted image_captured.
C30_Witness ==
    \E w \in Workers :
        /\ capRec[w].shot = "ok"
        /\ capRec[w].deleted = "failed"
        /\ capRec[w].signal = "image_captured"

\* A frame is emitted in this step of worker w.
FrameEmitStep(w) ==
    /\ previewRec'[w] # previewRec[w]
    /\ previewRec'[w].shown

\* C24: in every loop iteration the frame is emitted only after the drain of
\* that iteration has executed every command it found: the pass ends with
\* the queue empty and its snapshot executed in full, and a frame is emitted
\* only by the frame section, outside the drain, so never between two
\* commands of one pass.
C24_FrameAfterDrain ==
    [][\A w \in Workers :
         /\ (wpc[w] = "drain" /\ wpc'[w] = "preview")
                => /\ command_queue[w] = <<>>
                   /\ execLog[w] = drainSnap[w]
         /\ FrameEmitStep(w)
                => /\ wpc[w] = "preview"
                   /\ previewRec'[w].kind = "frame"
                   /\ ~mutex[w]
                   /\ executing[w] = {}
                   /\ drainSnap[w] = <<>>
      ]_vars

\* A frame has been emitted in an iteration whose drain executed a command.
C24_Witness ==
    \E w \in Workers :
        /\ previewRec[w].kind = "frame"
        /\ previewRec[w].shown
        /\ fps_sleep[w] \in {FPS_AFTER_UPDATE, FPS_AFTER_CAPTURE}

\* Worker w executes a parameter command in this step.
UpdateStep(w) ==
    /\ wpc[w] = "drain"
    /\ command_queue[w] # <<>>
    /\ Head(command_queue[w])[1] # CAPTURE
    /\ Len(execLog'[w]) = Len(execLog[w]) + 1

\* C25: a failed parameter write is neither retried nor fatal. The write is
\* attempted once: its command leaves the queue with the attempt, whatever
\* the result. A failure, also one whose recovery preview fails, emits no
\* error event and leaves keep_running and consecutive_errors as they were,
\* and the drain goes on with the commands queued behind it, in order.
C25_FailedWriteNeitherRetriedNorFatal ==
    [][\A w \in Workers :
         /\ UpdateStep(w)
                => /\ updateRec'[w] \in {"ok", "gperr", "exc"}
                   /\ execLog'[w] = Append(execLog[w], Head(command_queue[w]))
                   /\ command_queue'[w] = Tail(command_queue[w])
                   /\ nErr'[w] = nErr[w]
                   /\ uiq' = uiq
                   /\ keep_running'[w] = keep_running[w]
                   /\ consecutive_errors'[w] = consecutive_errors[w]
                   /\ heavyRun'[w] = heavyRun[w]
                   /\ wpc'[w] = "drain"
         /\ (/\ updateRec[w] \in {"gperr", "exc"}
             /\ wpc[w] = "drain"
             /\ wpc'[w] # "killed"
             /\ (wpc'[w] # wpc[w] \/ execLog'[w] # execLog[w]))
                => IF command_queue[w] # <<>>
                   THEN /\ execLog'[w] =
                              Append(execLog[w], Head(command_queue[w]))
                        /\ drainSnap[w][Len(execLog'[w])] =
                              Head(command_queue[w])
                   ELSE wpc'[w] = "preview"
      ]_vars

\* A parameter write has failed and so has its recovery preview; the command
\* queued behind it is still waiting in the same drain pass.
C25_Witness ==
    \E w \in Workers :
        /\ wpc[w] = "drain"
        /\ updateRec[w] = "gperr"
        /\ previewRec[w].kind = "recovery"
        /\ ~previewRec[w].taken
        /\ command_queue[w] # <<>>
        /\ keep_running[w]

\* C26: when a frame iteration fails with a GPhoto2Error, every command
\* pending at that moment is discarded as a whole; none of them is executed
\* or queued again later: until the next drain begins the queue changes only
\* by the caller's appends, so that drain finds the queue empty unless
\* commands were enqueued after the clear.
C26_QueueDroppedOnFrameError ==
    [][\A w \in Workers :
         /\ (frameResult[w] = "none" /\ frameResult'[w] = "fail")
                => /\ command_queue'[w] = <<>>
                   /\ dropped'[w] = Len(command_queue[w])
                   /\ execLog'[w] = execLog[w]
         /\ (frameResult[w] = "fail"
                /\ command_queue'[w] # command_queue[w])
                => AppendsCallersCommand(w)
         /\ (frameResult[w] = "fail" /\ wpc'[w] = "drain")
                => /\ wpc[w] = "loop"
                   /\ drainSnap'[w] = command_queue[w]
                   /\ execLog'[w] = <<>>
      ]_vars

\* A frame has failed with a GPhoto2Error while commands were pending: they
\* are gone and the worker goes on.
C26_Witness ==
    \E w \in Workers :
        /\ frameResult[w] = "fail"
        /\ dropped[w] = MaxQueue
        /\ command_queue[w] = <<>>
        /\ wpc[w] = "loop"
        /\ keep_running[w]

\* C27: a timeout of the trigger step of a capture is treated as Heavy and
\* makes the worker attempt a session restart: when that capture has
\* returned, the session was closed once more and either opened again (the
\* stream continues on the reopened session) or, the reopening having failed,
\* the worker has emitted the fatal error event and is leaving.
C27_TriggerTimeoutRestarts ==
    \A w \in Workers :
        (capRec[w].shot = "timeout" /\ Returned(w))
            => /\ exitCalls[w] >= 1
               /\ \/ opens[w] >= 2
                  \/ nErr[w] >= 1 /\ ~keep_running[w]

\* C28: if the session is set to terminate while the drain executes a capture
\* request, the worker leaves the loop in that same iteration: once that
\* drain is over it attempts no preview frame and emits none.
C28_TerminationSkipsPreview ==
    [][\A w \in Workers :
         (/\ wpc[w] = "drain"
          /\ execLog[w] = <<CaptureCmd>>
          /\ command_queue[w] = <<>>
          /\ ~keep_running[w]
          /\ wpc'[w] # wpc[w])
            => wpc'[w] # "preview"
      ]_vars

\* Worker w has left run()'s body without ever opening a session.
StartupFailed(w) == opens[w] = 0 /\ wpc[w] \in {"finally", "done"}

\* C29: a startup failure (no camera detected, or every one of the at most
\* INIT_ATTEMPTS session-open attempts failed) is fatal before streaming and
\* reported once: the failing step emits the one error event, after it no
\* further event, frame or configuration is emitted and no queued command is
\* executed, and when run() has returned no session object is left (a thread
\* that stop() terminates in between returns from nothing).
C29_StartupFailureReportedOnce ==
    [][\A w \in Workers :
         /\ wpc[w] = "init" => attempt[w] < INIT_ATTEMPTS
         /\ (wpc[w] \in {"detect", "init"} /\ wpc'[w] = "finally")
                => /\ nErr[w] = 0
                   /\ nErr'[w] = 1
                   /\ opens'[w] = 0
                   /\ ~keep_running'[w]
         /\ (wpc[w] \in {"detect", "init"} /\ wpc'[w] # wpc[w])
                => wpc'[w] \in {"init", "config", "finally", "killed"}
         /\ StartupFailed(w)
                => /\ nErr[w] = 1
                   /\ nErr'[w] = 1
                   /\ nSettings'[w] = 0
                   /\ ~FrameEmitStep(w)
                   /\ execLog'[w] = <<>>
                   /\ wpc'[w] \in {"finally", "done", "killed"}
                   /\ wpc'[w] = "done" => camera'[w] = "none"
      ]_vars

\* The third camera.init has failed: the error is reported, the damaged
\* session object is still to be closed, and a command is waiting.
C29_Witness ==
    \E w \in Workers :
        /\ wpc[w] = "finally"
        /\ attempt[w] = INIT_ATTEMPTS - 1
        /\ opens[w] = 0
        /\ nErr[w] = 1
        /\ camera[w] = "new"
        /\ command_queue[w] # <<>>


\* --------------------------------------- recovery, cancellation and sleep claims
\* The step in which _execute_capture runs from the trigger to its return
\* value, for a picture that was taken, fetched and saved.
CaptureSucceeds(w) ==
    /\ wpc[w] = "capture"
    /\ wpc'[w] = "cap_finally"
    /\ capRec'[w].shot = "ok"

\* C31: after a successful capture the worker tries the preview capture again
\* to resume live preview, a bounded number of times (once); whether or not
\* the attempt succeeds, the capture is reported as successful
\* (image_captured, no capture_failed), no error is emitted, the
\* consecutive-error counter and the run flag are untouched, and the worker
\* goes on with its drain pass and the frame section of the loop.
C31_RecoveryFailureKeepsCapture ==
    [][\A w \in Workers :
         /\ CaptureSucceeds(w)
               => /\ previewRec'[w].kind = "recovery"
                  /\ capRec'[w].signal = "image_captured"
                  /\ nErr'[w] = nErr[w]
                  /\ consecutive_errors'[w] = consecutive_errors[w]
                  /\ keep_running'[w] = keep_running[w]
         /\ (wpc[w] = "cap_finally" /\ wpc'[w] # "cap_finally")
               => wpc'[w] \in {"drain", "killed"}
         /\ (wpc[w] = "drain" /\ wpc'[w] \notin {"drain", "killed"})
               => wpc'[w] \in {"capture", "preview"}
      ]_vars

\* A capture succeeded, its recovery preview failed, and the capture still
\* stands as successful with the counter at zero.
C31_Witness ==
    \E w \in Workers :
        /\ wpc[w] = "cap_finally"
        /\ capRec[w].shot = "ok"
        /\ capRec[w].signal = "image_captured"
        /\ previewRec[w].kind = "recovery"
        /\ ~previewRec[w].taken
        /\ consecutive_errors[w] = 0
        /\ nErr[w] = 0


\* A running worker the controller no longer holds as lv_thread: _stop_lv
\* (956-958) or _on_lv_error (1040-1050) has cleared its keep_running.
StopRequested(w) == IsRunning(w) /\ lv_thread # w

\* C32 (as claimed): a stop request is never lost. Once the controller has
\* cleared a worker's run flag -- at any point of the worker's life, startup
\* included -- the flag stays cleared, and the worker's next while test ends
\* the loop, so that it exits by itself after at most one further iteration.
C32_StopNeverLost ==
    [][\A w \in Workers :
         StopRequested(w)
            => /\ ~keep_running'[w]
               /\ (wpc[w] = "loop" /\ wpc'[w] # "loop")
                     => wpc'[w] \in {"finally", "killed"}
      ]_vars


\* A capture command leaves worker w's queue without being executed and
\* without the controller's own clear (_stop_lv 960-963, _on_lv_error
\* 1052-1056).
QueuedCapture(q) == \E i \in 1..Len(q) : q[i][1] = CAPTURE
CaptureDiscarded(w) ==
    /\ QueuedCapture(command_queue[w])
    /\ ~QueuedCapture(command_queue'[w])
    /\ ~(wpc[w] = "drain" /\ wpc'[w] = "capture")
    /\ ~(ui_pc \in {"stop_lock", "err_lock"} /\ ui_w = w /\ ui_pc' = "idle")

\* C33 (as claimed): a capture request the controller has accepted is never
\* silently discarded -- the worker takes it from the queue only to execute
\* it (which answers it with image_captured or capture_failed) or in a step
\* that emits its error event -- so the controller does not stay in its
\* capturing state, stop and capture disabled, with no answer to come while
\* the worker keeps streaming.
C33_CaptureAnswered ==
    [][\A w \in Workers : CaptureDiscarded(w) => nErr'[w] > nErr[w]]_vars


\* C34 (as claimed): every retry action taken in NeedsReconnect eventually
\* leaves Reconnecting -- a worker runs, or the controller is back in
\* NeedsReconnect with the retry available, or the user has left the view --
\* also when _probe_camera declined to start a probe for it.  (Stated for a
\* retry after which a worker can still be created.)
C34_RetryLeavesReconnecting ==
    (reconnecting /\ nextWorker <= MaxWorkers) ~> ~reconnecting


\* _on_thread_finished runs for the finished signal at the head of the queue.
ThreadFinishedStep ==
    /\ ui_pc = "idle" /\ uiq # <<>>
    /\ Head(uiq)[2] = "finished"
    /\ finishedSlot[Head(uiq)[1]] = "thread"
    /\ uiq' = Tail(uiq)

\* C35 (as claimed): while the controller's current worker runs (Running),
\* none of _stopping, _reconnecting and _needs_reconnect is set, and
\* _on_thread_finished, run for an older worker's exit, leaves the live-view
\* button of a newer running worker as it is.
C35_OneConnectionState ==
    [][/\ IsRunning(lv_thread)'
          => (~stopping' /\ ~reconnecting' /\ ~needs_reconnect')
       /\ (ThreadFinishedStep /\ IsRunning(lv_thread))
          => (btn_lv_text' = btn_lv_text /\ btn_lv_enabled' = btn_lv_enabled)
      ]_vars


\* _execute_capture returns: the step from the trigger to the emit, and the
\* finally after it.
CaptureEmitStep(w) == wpc[w] = "capture" /\ wpc'[w] = "cap_finally"
CaptureEndStep(w) == wpc[w] = "cap_finally" /\ wpc'[w] = "drain"

\* C36: each capture the worker starts executing emits exactly one of
\* image_captured and capture_failed -- image_captured when the picture was
\* taken, fetched and saved, capture_failed when any of these steps raised,
\* whatever the first step, the delete and the recovery preview did -- in
\* one step, never a second one before the sequence ends; _capturing is set
\* exactly while the sequence runs and is cleared when it ends.  (A thread
\* terminated inside the sequence emits nothing more.)
C36_OneEventPerCapture ==
    [][\A w \in Workers :
         /\ CaptureEmitStep(w)
               => /\ capRec[w].signal = "none"
                  /\ capRec'[w].signal \in {"image_captured", "capture_failed"}
                  /\ capRec'[w].signal = "image_captured"
                        <=> capRec'[w].shot = "ok"
         /\ (capRec'[w].signal # capRec[w].signal /\ capRec'[w].signal # "none")
               => CaptureEmitStep(w)
         /\ CaptureEndStep(w)
               => /\ capRec'[w].signal = capRec[w].signal
                  /\ capRec[w].signal # "none"
                  /\ capturing[w] /\ ~capturing'[w]
                  /\ executing'[w] = {}
         /\ (IsRunning(w))'
               => (capturing'[w] <=> wpc'[w] \in {"capture", "cap_finally"})
      ]_vars

\* A capture whose first step failed and whose trigger or download failed
\* has ended, with capture_failed emitted and _capturing cleared.
C36_Witness ==
    \E w \in Workers :
        /\ wpc[w] = "drain"
        /\ ~capturing[w]
        /\ capRec[w].step1 \in {"readfailed", "latefailed"}
        /\ capRec[w].shot = "failed"
        /\ capRec[w].signal = "capture_failed"
        /\ capRec[w].restore \in {"failed", "none"}


\* _stop_lv has run to its end for worker w; _on_lv_error has detached w.
StopEndStep(w) == ui_pc = "stop_lock" /\ ui_w = w /\ ui_pc' = "idle"
ErrorDetachStep(w) ==
    /\ ui_pc = "idle" /\ uiq # <<>>
    /\ Head(uiq)[2] = "error_occurred"
    /\ Len(uiq') < Len(uiq)
    /\ lv_thread = w /\ lv_thread' = NoWorker
\* Nothing of worker w but image_captured (and the thread's finished) can
\* reach a handler: no other signal has a slot, none waits in the queue.
Silenced(w) ==
    /\ connected[w] \subseteq {"image_captured"}
    /\ \A i \in 1..Len(uiq) :
          uiq[i][1] = w => uiq[i][2] \in {"image_captured", "finished"}

\* C37: the stop action and the error handling leave their worker with
\* image_captured as its only connected signal and with no other event of it
\* waiting, and this stays so for good: no frame_received, settings_loaded,
\* error_occurred or capture_failed of a detached worker is handled any
\* more, so every error the controller handles comes from a worker whose
\* error signal is still connected, never from a stopped one.
C37_DetachedWorkerSilenced ==
    [][/\ \A w \in Workers :
            /\ (StopEndStep(w) \/ ErrorDetachStep(w)) => Silenced(w)'
            /\ (wpc[w] # "unborn" /\ Silenced(w)) => Silenced(w)'
       /\ (ui_pc = "idle" /\ uiq # <<>> /\ Head(uiq)[1] # NoWorker
             /\ Head(uiq)[2] # "finished" /\ Len(uiq') < Len(uiq))
             => /\ Head(uiq)[2] \in connected[Head(uiq)[1]]
                /\ ~Silenced(Head(uiq)[1])
                       \/ Head(uiq)[2] = "image_captured"
      ]_vars

\* A worker stopped during its startup has failed and emitted its error
\* afterwards; the error reached no handler.
C37_Witness ==
    \E w \in Workers :
        /\ finishedSlot[w] = "thread"
        /\ nErr[w] = 1
        /\ wpc[w] = "done"
        /\ ~needs_reconnect
        /\ ~error_stopped
        /\ uiq = <<>>


\* run() before the while loop (100-156): detection, camera.init, the
\* configuration reads, settings_loaded.
Initializing(w) == wpc[w] \in {"detect", "init", "config", "config_done"}
IsPrefix(p, q) == Len(p) <= Len(q) /\ \A i \in 1..Len(p) : p[i] = q[i]

\* C38: while the worker is initializing it executes no command and takes
\* and emits no frame, and its queue only grows at the tail; it leaves the
\* startup for the loop with the run flag set and the queue as it is (or for
\* the finally, the startup having failed); a while test passed with
\* commands queued begins a drain pass over the whole queue, and the pass
\* ends only when all of them have been executed, in their order.  (A thread
\* terminated by stop() executes nothing more.)
C38_NoCommandBeforeStreaming ==
    [][\A w \in Workers :
         /\ Initializing(w)
               => /\ execLog[w] = <<>> /\ execLog'[w] = <<>>
                  /\ executing'[w] = {}
                  /\ previewRec'[w] = PreviewRecNone
                  /\ ~capturing'[w]
                  /\ IsPrefix(command_queue[w], command_queue'[w])
         /\ (Initializing(w) /\ ~Initializing(w)')
               => \/ wpc'[w] = "loop" /\ keep_running'[w]
                  \/ wpc'[w] = "finally" /\ nErr'[w] = nErr[w] + 1
                  \/ wpc'[w] = "killed"
         /\ (wpc[w] = "loop" /\ keep_running[w] /\ command_queue[w] # <<>>
               /\ wpc'[w] \notin {"loop", "killed"})
               => /\ wpc'[w] = "drain"
                  /\ drainSnap'[w] = command_queue[w]
                  /\ command_queue'[w] = command_queue[w]
         /\ (wpc[w] = "drain" /\ wpc'[w] = "preview")
               => /\ command_queue[w] = <<>>
                  /\ execLog[w] = drainSnap[w]
      ]_vars

\* Two commands were enqueued while the worker was reading its
\* configuration; they wait in the order of their enqueue, nothing executed.
C38_Witness ==
    \E w \in Workers :
        /\ wpc[w] = "config_done"
        /\ camera[w] = "open"
        /\ Len(command_queue[w]) = 2
        /\ command_queue[w][1][1] # CAPTURE
        /\ command_queue[w][2][1] = CAPTURE
        /\ execLog[w] = <<>>


\* The frame section ends and time.sleep(fps_sleep) is reached (232).
SleepStep(w) == wpc[w] = "preview" /\ wpc'[w] = "loop"

\* C39: the sleep at the end of an iteration, in milliseconds.  The iteration
\* starts at 50; one that executes no command reaches the frame section with
\* 50, one that executes commands with the longer interval of the last of
\* them (500 after a capture, 150 after a parameter write); a frame that
\* succeeds leaves the interval as it is; a frame error replaces it,
\* whatever it was, by 1500 for a Heavy code and by 500 for a Light code, an
\* unlisted code or another exception.
C39_SleepPolicy ==
    [][\A w \in Workers :
         /\ (wpc[w] = "loop" /\ wpc'[w] = "preview") => fps_sleep'[w] = 50
         /\ (wpc[w] = "loop" /\ wpc'[w] = "drain") => fps_sleep'[w] = 50
         /\ (wpc[w] = "drain" /\ wpc'[w] = "preview")
               => /\ execLog[w] # <<>>
                  /\ fps_sleep'[w] =
                        IF execLog[w][Len(execLog[w])][1] = CAPTURE
                        THEN 500 ELSE 150
                  /\ fps_sleep'[w] > 50
         /\ (SleepStep(w) /\ frameResult'[w] \in {"ok", "ok_after_errors"})
               => fps_sleep'[w] = fps_sleep[w]
         /\ (SleepStep(w) /\ frameResult'[w] = "fail" /\ heavyRun'[w] > 0)
               => fps_sleep'[w] = 1500
         /\ (SleepStep(w) /\ frameResult'[w] = "fail" /\ heavyRun'[w] = 0)
               => fps_sleep'[w] = 500
         /\ (SleepStep(w) /\ frameResult'[w] = "fail_exc")
               => fps_sleep'[w] = 500
      ]_vars

\* An iteration met its first frame error, a Heavy one, with a command
\* waiting in the queue, and sleeps 1500.
C39_Witness ==
    \E w \in Workers :
        /\ wpc[w] = "loop"
        /\ frameResult[w] = "fail"
        /\ heavyRun[w] = 1
        /\ consecutive_errors[w] = 1
        /\ dropped[w] = 1
        /\ fps_sleep[w] = 1500

====
